---- MODULE Spec2Model ----
(***************************************************************************)
(* Incident remediation pipeline: OrchestrationAgent.run drives one        *)
(* incident through Intake, Classify, Plan, Execute, Validate, (retry of   *)
(* Execute on rollback) and Close.  The decision oracle (LLM) and the two  *)
(* remote systems (automation runner, ticketing system) are modelled as    *)
(* nondeterministic choices over their possible answers.                   *)
(*                                                                         *)
(* Spec         the whole run, with the store up                           *)
(* SpecPersist  the whole run, with the store up or down                   *)
(* SpecPlan     Plan and Execute on chosen labels and incident texts       *)
(* SpecExecute  ExecutorAgent.run with the poll loop step by step          *)
(* SpecOverride repeated calls of validate_playbook_selection              *)
(* SpecLookup   the planner's loop over the labels, one lookup per step    *)
(* SpecClassify catalog fetch and Classify on a known oracle answer        *)
(* SpecValidate Execute, Validate and Close on known oracle answers        *)
(* SpecConcurrent two runs in one process, sharing the catalog cache       *)
(* SpecFilter   the planner's candidate filter on chosen catalogs          *)
(* SpecCatalog  calls of list_job_templates over time                      *)
(* SpecScheduler the incident scheduler's poll loop and its fetcher        *)
(***************************************************************************)
EXTENDS Integers, Sequences, FiniteSets, TLC

(* ------------------------------ bounds --------------------------------- *)
\* locally generated job ids are 0..MaxLocalJob (the code: 0..9999)
MaxLocalJob == 0
\* the runner's job counter starts anywhere in 1..MaxFirstJob
MaxFirstJob == 1

(* --------------------------- Python values ----------------------------- *)
\* None of an Optional object field
None == [none |-> TRUE]
\* None of an Optional[str]
NoneStr == "<None>"
\* a key that is not in a dict
Absent == "<absent>"

\* Python truthiness of an optional string taken from a dict
Falsy(v) == v \in {Absent, NoneStr, ""}

\* str(n) for the small integers used as job ids
Digits == <<"0", "1", "2", "3", "4", "5", "6", "7", "8", "9">>
Str(n) == Digits[n + 1]

\* list helpers
Count(seq, x) == Cardinality({i \in 1..Len(seq) : seq[i] = x})
IsPrefix(a, b) == Len(a) <= Len(b) /\ SubSeq(b, 1, Len(a)) = a
Last(seq) == seq[Len(seq)]

(* ----------------------------- inputs ---------------------------------- *)
\* raw_incident: only the two keys that OrchestrationAgent.run reads
RawIncidents ==
  { [number |-> Absent, incident_number |-> Absent],
    [number |-> Absent, incident_number |-> NoneStr],
    [number |-> Absent, incident_number |-> "INC2"],
    [number |-> "INC1", incident_number |-> "INC2"] }

\* An incident text is represented by the set of keywords it contains as
\* substrings (all the code ever asks of the text is `keyword in text`).
TextPlain == {}
TextCpu == {"cpu"}
Texts == {TextPlain, TextCpu}

\* dict.get(key) of the raw incident
RawGet(raw) == IF raw.number = Absent THEN NoneStr ELSE raw.number

\* orchestrator.py lines 21-22
NormalizeRaw(raw) ==
  IF raw.incident_number # Absent /\ raw.number = Absent
    THEN [raw EXCEPT !.number = raw.incident_number]
    ELSE raw

(* ------------------------------ state ---------------------------------- *)
VARIABLES
  pc,         \* position of OrchestrationAgent.run
  raw,        \* raw_incident (mutated by line 22)
  ctx,        \* the PipelineContext
  playbooks,  \* the catalog snapshot pre-fetched for the run
  result,     \* the OrchestratorResponse returned, None while running
  trace,      \* stages invoked so far, in order
  jobs,       \* jobs launched on the automation runner
  nextJob,    \* the runner's next job id
  execs,      \* what happened inside each Execute invocation
  ticket,     \* calls made on the ticketing system and how each ended
  raised,     \* the stage that raised, NoneStr if none did
  plan_data,  \* the plan dict validate_playbook_selection is applied to
  last_labels,\* the labels of its last application
  applied,    \* how many times it was applied
  latched,    \* the severity override has set human-only on this plan
  poll_pc,    \* position inside ExecutorAgent.run and AWXClient.poll_job
  clock,      \* seconds elapsed since poll_job took its start time
  timeout_seconds, \* the timeout the caller gave poll_job
  poll_status,\* the status poll_job read last
  poll_events,\* the local variable `events` of poll_job
  poll_result,\* what poll_job returned, None before it returns
  fetched,    \* the events of the last fetch that succeeded
  events_failed, \* the last fetch of the events raised
  sleeps,     \* the sleeps of poll_job so far
  late_sleeps,\* those of them that ended at or after the timeout
  dbmode,     \* which persistence calls fail in this run
  oracle,     \* the answers the decision oracle is known to give in this run
  lookup,     \* where the planner's loop over the labels stands
  runs,       \* the runs of OrchestrationAgent.run in flight at the same time
  cache,      \* the entry of AWXClient._cache, None if there is none
  now,        \* the time of the hosting process, in seconds
  listing,    \* the call of list_job_templates that is followed
  processed_incidents, \* ServiceNowIncidentFetcher.processed_incidents
  scheduler,  \* the position of IncidentScheduler._poll_loop and its history
  db,         \* the persistence calls made: stage and whether it succeeded
  oracle_closure \* how the oracle answered Close, NoneStr if it was not asked

policyVars == <<plan_data, last_labels, applied, latched>>

pollVars == <<poll_pc, clock, timeout_seconds, poll_status, poll_events,
              poll_result, fetched, events_failed, sleeps, late_sleeps>>

\* the state of the hosting process that outlives a run
schedVars == <<processed_incidents, scheduler>>
hostVars == <<runs, cache, now, listing, schedVars>>

vars == <<pc, raw, ctx, playbooks, result, trace, jobs, nextJob, execs, ticket,
          raised, policyVars, pollVars, dbmode, oracle, lookup, hostVars, db, oracle_closure>>

EmptyContext ==
  [incident |-> None, classification |-> None, plan |-> None,
   execution |-> None, validation |-> None, closure |-> None]

\* the answer of the oracle to one stage: any answer it can give, or a
\* known one
Free == [pinned |-> FALSE]
Pinned(answer) == [pinned |-> TRUE, answer |-> answer]
FreeOracle == [classify |-> Free, plan |-> Free, validate |-> Free, close |-> Free]

\* the answers a stage can receive, and whether the call of the oracle can
\* itself raise
Answers(o, all) == IF o.pinned THEN {o.answer} ELSE all
LlmUps(o) == IF o.pinned THEN {TRUE} ELSE BOOLEAN

\* the planner's loop over the labels is not being followed: no label looked
\* up, no descriptor returned, no suggestion made, no catalog filtered
IdleLookup ==
  [i |-> 0, label |-> NoneStr, pb |-> None, suggested_playbook |-> None,
   filtered |-> FALSE, filtered_playbooks |-> <<>>]

\* the scheduler sleeps before its first poll and has run nothing
IdleScheduler ==
  [pc |-> "sleep", batch |-> <<>>, i |-> 1, inflight |-> {}, started |-> <<>>,
   failed |-> {}, skipped |-> {}, polls |-> 0]

\* no call of list_job_templates is followed
IdleListing ==
  [pc |-> "idle", force |-> FALSE, ts |-> 0, hit |-> FALSE, out |-> <<>>, calls |-> 0]

\* a single run in a process that has just started: no other run, nothing
\* cached, time 0
IdleHost ==
  /\ runs = <<>>
  /\ cache = None
  /\ now = 0
  /\ listing = IdleListing
  /\ processed_incidents = {}
  /\ scheduler = IdleScheduler

\* no call of validate_playbook_selection is being followed
IdlePolicy ==
  /\ plan_data = [keys |-> {}, playbook_id |-> "", playbook_name |-> "", eligibility |-> ""]
  /\ last_labels = <<>>
  /\ applied = 0
  /\ latched = FALSE

\* no call of poll_job is being followed step by step
IdlePoll ==
  /\ poll_pc = "idle"
  /\ clock = 0
  /\ timeout_seconds = 0
  /\ poll_status = NoneStr
  /\ poll_events = <<>>
  /\ poll_result = None
  /\ fetched = <<>>
  /\ events_failed = FALSE
  /\ sleeps = 0
  /\ late_sleeps = 0

Init ==
  /\ pc = "start"
  /\ raw \in RawIncidents
  /\ ctx = EmptyContext
  /\ playbooks = <<>>
  /\ result = None
  /\ trace = <<>>
  /\ jobs = <<>>
  /\ nextJob \in 1..MaxFirstJob
  /\ execs = <<>>
  /\ ticket = <<>>
  /\ raised = NoneStr
  /\ IdlePolicy
  /\ IdlePoll
  /\ dbmode = "up"
  /\ oracle = FreeOracle
  /\ lookup = IdleLookup
  /\ IdleHost
  /\ db = <<>>
  /\ oracle_closure = NoneStr

(* ------------------------ OrchestrationAgent.run ----------------------- *)
\* the response of the except handler, and of the `not ctx.incident` branch
ErrorResponse(r) ==
  [status |-> "error",
   incident |-> IF Falsy(RawGet(r)) THEN "unknown" ELSE RawGet(r),
   job_id |-> NoneStr]

\* a stage raised: the except handler of run returns the error response
Abort(stage) ==
  /\ result' = ErrorResponse(raw)
  /\ raised' = stage
  /\ pc' = "done"

(* ----------------------------- persistence ----------------------------- *)
Stages == {"Intake", "Classify", "Plan", "Execute", "Validate", "Close"}

\* the store is up, or down for the whole run
DbModes == {"up", "down"}

\* whether a repository call succeeds
DbOutcomes(mode) == {mode = "up"}

\* the upsert/insert a stage makes for its record
Persist(stage, ok) == db' = Append(db, [stage |-> stage, ok |-> ok])

\* a failed repository call is raised to the stage
PersistAbortsMutant(ok) == ~ok

\* the try/except around every repository call: a failure is printed and
\* never raised
PersistAborts(ok) == FALSE

\* lines 19-22
Start ==
  /\ pc = "start"
  /\ raw' = NormalizeRaw(raw)
  /\ ctx' = EmptyContext
  /\ pc' = "intake"
  /\ UNCHANGED <<playbooks, result, trace, jobs, nextJob, execs, ticket, raised, policyVars, pollVars, dbmode, oracle, lookup, hostVars, oracle_closure, db>>

(* ------------------------------ Intake --------------------------------- *)
\* str.upper() and str.lower() on the severities the oracle is given here
Upper(s) ==
  CASE s = "p2" -> "P2"
    [] s = "critical" -> "CRITICAL"
    [] OTHER -> s
Lower(s) ==
  CASE s = "P2" -> "p2"
    [] s = "CRITICAL" -> "critical"
    [] OTHER -> s

AllowedSeverities == {"p1", "p2", "p3", "p4"}

\* mapping.get(sev.lower(), "P3")
SeverityMapping(s) ==
  CASE s = "critical" -> "P1"
    [] s = "high" -> "P2"
    [] s = "medium" -> "P3"
    [] s = "low" -> "P4"
    [] OTHER -> "P3"

\* intake.py lines 41-47; a missing severity is read as ""
NormalizeSeverity(given) ==
  LET sev == Upper(IF given = Absent THEN "" ELSE given)
  IN IF Lower(sev) \in AllowedSeverities THEN sev ELSE SeverityMapping(Lower(sev))

\* the oracle's answer could not be parsed into a dict
Unparsable == [unparsable |-> TRUE]

\* the oracle's intake answers: number and severity keys may be missing,
\* `complete` says whether every required Incident field is there
IntakeOutputs ==
  {Unparsable} \cup
  [number : {Absent, "INC9"}, severity : {"p2", "critical"},
   text : Texts, complete : BOOLEAN]

\* intake.py line 49: parsed_dict.get("number") or raw_incident.get("number")
IntakeNumber(parsed, r) ==
  IF Falsy(parsed.number) THEN RawGet(r) ELSE parsed.number

\* IntakeAgent.run raises
IntakeFails(parsed, r) ==
  \/ parsed = Unparsable
  \/ Falsy(IntakeNumber(parsed, r))
  \/ ~parsed.complete

IntakeIncident(parsed, r) ==
  [number |-> IntakeNumber(parsed, r),
   severity |-> NormalizeSeverity(parsed.severity),
   text |-> parsed.text]

\* the `not ctx.incident` branch of run (lines 27-33)
IntakeMissing(c) == c.incident = None

\* orchestrator lines 25-33 with IntakeAgent.run; llmUp = FALSE is the
\* oracle call itself raising
Intake ==
  /\ pc = "intake"
  /\ trace' = Append(trace, "Intake")
  /\ \E llmUp \in BOOLEAN, parsed \in IntakeOutputs, dbOk \in DbOutcomes(dbmode) :
       IF ~llmUp \/ IntakeFails(parsed, raw)
         THEN Abort("Intake") /\ UNCHANGED <<ctx, db>>
         ELSE /\ Persist("Intake", dbOk)
              /\ IF PersistAborts(dbOk)
                   THEN Abort("Intake") /\ UNCHANGED ctx
                   ELSE LET c == [ctx EXCEPT !.incident = IntakeIncident(parsed, raw)]
                        IN /\ ctx' = c
                           /\ IF IntakeMissing(c)
                                THEN result' = ErrorResponse(raw) /\ pc' = "done" /\ UNCHANGED raised
                                ELSE pc' = "prefetch" /\ UNCHANGED <<result, raised>>
  /\ UNCHANGED <<raw, playbooks, jobs, nextJob, execs, ticket, policyVars, pollVars, dbmode, oracle, lookup, hostVars, oracle_closure>>

(* ----------------------- catalog pre-fetch ----------------------------- *)
\* the procedures the runner lists
Catalog ==
  << [id |-> "7", name |-> "Demo Job Template"],
     [id |-> "9", name |-> "check_cpu_utilization"],
     [id |-> "10", name |-> "Clean up var filesystem"] >>

\* a failed fetch is raised to the run
FetchAbortsMutant(fetchOk) == ~fetchOk

\* orchestrator lines 39-42: an exception of list_job_templates is printed
\* and never raised
FetchAborts(fetchOk) == FALSE

\* orchestrator lines 36-42: a failed fetch leaves the empty list
Prefetch ==
  /\ pc = "prefetch"
  /\ \E fetchOk \in BOOLEAN :
       IF FetchAborts(fetchOk)
         THEN Abort("Prefetch") /\ UNCHANGED playbooks
         ELSE /\ playbooks' = IF fetchOk THEN Catalog ELSE <<>>
              /\ pc' = "classify"
              /\ UNCHANGED <<result, raised>>
  /\ UNCHANGED <<raw, ctx, trace, jobs, nextJob, execs, ticket, policyVars, pollVars, dbmode, oracle, lookup, hostVars, oracle_closure, db>>

(* ------------------------------ Classify ------------------------------- *)
StorageKeywords ==
  {"disk", "storage", "filesystem", "space", "partition", "mount", "full", "cleanup"}
CpuKeywords == {"cpu", "utilization", "processor"}
MemoryKeywords == {"memory", "ram", "memory_usage"}

\* ClassifierAgent._heuristic_labeler, as the set it builds
HeuristicLabels(text) ==
  (IF text \cap StorageKeywords # {}
     THEN {"disk_full"}
          \cup (IF "var" \in text THEN {"var_full"} ELSE {})
          \cup (IF "tmp" \in text THEN {"tmp_full"} ELSE {})
          \cup (IF "cleanup" \in text THEN {"filesystem_cleanup"} ELSE {})
     ELSE {})
  \cup (IF text \cap CpuKeywords # {} THEN {"high_cpu"} ELSE {})
  \cup (IF text \cap MemoryKeywords # {} THEN {"high_memory"} ELSE {})

\* the elements of a list
Range(seq) == {seq[i] : i \in 1..Len(seq)}

\* list(a_set): the lists that hold each element once, in any order
ListsOf(S) ==
  {l \in [1..Cardinality(S) -> S] : \A i, j \in 1..Cardinality(S) : l[i] = l[j] => i = j}

Eligibilities == {"auto", "human-only"}

\* confidence in tenths
ConfidenceBonus == 2
ConfidenceCap == 10
DefaultConfidence == 5

\* the oracle's classification answers: `keys` are the keys present in the
\* answer (the value of a missing key is not read); the eligibility may be
\* a value outside the Literal
ClassifierOutputs ==
  { Unparsable,
    [keys |-> {}, labels |-> <<>>, severity |-> "", eligibility |-> "", confidence |-> 0],
    [keys |-> {"labels", "severity", "eligibility", "confidence"},
     labels |-> <<"P1">>, severity |-> "P1", eligibility |-> "auto", confidence |-> 9],
    [keys |-> {"labels", "severity", "eligibility", "confidence"},
     labels |-> <<"severity", "server_down">>, severity |-> "P1", eligibility |-> "human-only", confidence |-> 9],
    [keys |-> {"labels", "eligibility"},
     labels |-> <<"high_cpu", "server_down">>, severity |-> "", eligibility |-> "human-only", confidence |-> 0],
    [keys |-> {"labels", "severity", "eligibility", "confidence"},
     labels |-> <<"server_down", "server_down">>, severity |-> "P2", eligibility |-> "auto", confidence |-> 9],
    [keys |-> {"labels", "severity", "confidence"},
     labels |-> <<"disk_full">>, severity |-> "P2", eligibility |-> "", confidence |-> 9],
    [keys |-> {"labels", "severity", "eligibility", "confidence"},
     labels |-> <<"server_down">>, severity |-> "P2", eligibility |-> "auto-remediate", confidence |-> 9] }

ClassifierDefaultsMutant(parsed) ==
  [labels |-> IF "labels" \in parsed.keys THEN parsed.labels ELSE <<"unknown">>,
   severity |-> IF "severity" \in parsed.keys THEN parsed.severity ELSE "P2",
   eligibility |-> IF "eligibility" \in parsed.keys THEN parsed.eligibility ELSE "auto",
   confidence |-> IF "confidence" \in parsed.keys THEN parsed.confidence ELSE DefaultConfidence]

\* classifier.py lines 120-127: the defaults of the missing keys
ClassifierDefaults(parsed) ==
  [labels |-> IF "labels" \in parsed.keys THEN parsed.labels ELSE <<"unknown">>,
   severity |-> IF "severity" \in parsed.keys THEN parsed.severity ELSE "P3",
   eligibility |-> IF "eligibility" \in parsed.keys THEN parsed.eligibility ELSE "auto",
   confidence |-> IF "confidence" \in parsed.keys THEN parsed.confidence ELSE DefaultConfidence]

\* Classification(**parsed_dict) raises on an eligibility outside the Literal
ClassifierFails(parsed) ==
  \/ parsed = Unparsable
  \/ ClassifierDefaults(parsed).eligibility \notin Eligibilities

Min(a, b) == IF a < b THEN a ELSE b

ClassificationsMutant(parsed, text) ==
  LET c == ClassifierDefaults(parsed)
      h == HeuristicLabels(text)
  IN IF h = {}
       THEN {c}
       ELSE {[c EXCEPT !.labels = l,
                       !.confidence = Min(ConfidenceCap, c.confidence + ConfidenceBonus)]
               : l \in ListsOf(h)}

\* classifier.py lines 137-143: the classifications the heuristic union can
\* leave (the order of list(a_set) is not determined)
Classifications(parsed, text) ==
  LET c == ClassifierDefaults(parsed)
      h == HeuristicLabels(text)
  IN IF h = {}
       THEN {c}
       ELSE {[c EXCEPT !.labels = l,
                       !.confidence = Min(ConfidenceCap, c.confidence + ConfidenceBonus)]
               : l \in ListsOf(Range(c.labels) \cup h)}

\* the gate compares with a misspelt value
PolicyGateMutant(classification) == classification.eligibility = "human_only"

\* the policy gate of run (line 48)
PolicyGate(classification) == classification.eligibility = "human-only"

AwaitingApproval(c) ==
  [status |-> "awaiting_approval", incident |-> c.incident.number, job_id |-> NoneStr]

\* orchestrator lines 44-53 with ClassifierAgent.run
Classify ==
  /\ pc = "classify"
  /\ trace' = Append(trace, "Classify")
  /\ \E llmUp \in LlmUps(oracle.classify), parsed \in Answers(oracle.classify, ClassifierOutputs), dbOk \in DbOutcomes(dbmode) :
       IF ctx.incident = None \/ ~llmUp \/ ClassifierFails(parsed)
         THEN Abort("Classify") /\ UNCHANGED <<ctx, db>>
         ELSE /\ Persist("Classify", dbOk)
              /\ IF PersistAborts(dbOk)
                   THEN Abort("Classify") /\ UNCHANGED ctx
                   ELSE \E cls \in Classifications(parsed, ctx.incident.text) :
                          /\ ctx' = [ctx EXCEPT !.classification = cls]
                          /\ IF PolicyGate(cls)
                               THEN result' = AwaitingApproval(ctx) /\ pc' = "done" /\ UNCHANGED raised
                               ELSE pc' = "plan" /\ UNCHANGED <<result, raised>>
  /\ UNCHANGED <<raw, playbooks, jobs, nextJob, execs, ticket, policyVars, pollVars, dbmode, oracle, lookup, hostVars, oracle_closure>>

(* -------------------------------- Plan --------------------------------- *)
DemoPlaybook == [id |-> "7", name |-> "Demo Job Template"]
CpuPlaybook == [id |-> "9", name |-> "check_cpu_utilization"]
CleanupPlaybook == [id |-> "10", name |-> "Clean up var filesystem"]

\* the labels (of those used here) whose lower case contains one of the root
\* tokens "disk", "storage", "filesystem", "space"
StorageRootLabels ==
  {"disk_full", "storage_full", "storage_space_warning", "filesystem_cleanup",
   "out_of_space", "disk_usage_high", "disk_space", "filesystem_issue",
   "storage_issue", "critical_disk_space", "random_label_with_disk",
   "filesystem_problem", "DISK_FULL", "workspace_low"}

PlaybookForMutant(category) ==
  CASE category \in {"server_down", "high_memory", "database_down", "application_crash"}
         -> DemoPlaybook
    [] category \in {"high_cpu", "network_error"} -> CpuPlaybook
    [] category \in {"disk_full", "storage_full", "storage_space_warning",
                     "filesystem_cleanup", "out_of_space", "disk_usage_high",
                     "disk_space", "filesystem_issue", "storage_issue",
                     "critical_disk_space", "file_system_full", "var_full",
                     "tmp_full", "fs_full"}
         -> CleanupPlaybook
    [] OTHER -> DemoPlaybook

\* PlannerAgent._get_playbook_for_classification
PlaybookFor(category) ==
  IF category \in StorageRootLabels THEN CleanupPlaybook
  ELSE CASE category \in {"server_down", "high_memory", "database_down", "application_crash"}
              -> DemoPlaybook
         [] category \in {"high_cpu", "network_error"} -> CpuPlaybook
         [] category \in {"file_system_full", "var_full", "tmp_full", "fs_full"}
              -> CleanupPlaybook
         [] OTHER -> DemoPlaybook

\* planner.py lines 136-144: the first label with a specific playbook
RECURSIVE FirstSpecific(_)
FirstSpecific(labels) ==
  IF labels = <<>> THEN PlaybookFor("default")
  ELSE IF PlaybookFor(Head(labels)).id # "7" THEN PlaybookFor(Head(labels))
  ELSE FirstSpecific(Tail(labels))

TextStorageKeywords ==
  {"/var", "/tmp", "disk full", "storage full", "filesystem full", "out of space"}

\* planner.py lines 136-150: the deterministic suggestion
SuggestedPlaybook(labels, text) ==
  IF text \cap TextStorageKeywords # {} THEN CleanupPlaybook ELSE FirstSpecific(labels)

\* the oracle's plan answers: `keys` are the keys present, `complete` says
\* whether the other required Plan fields (risk_score) are there
PlannerOutputs ==
  { Unparsable,
    [keys |-> {"playbook_id", "playbook_name", "eligibility"}, playbook_id |-> "7",
     playbook_name |-> "Demo Job Template", eligibility |-> "auto", complete |-> TRUE],
    [keys |-> {"playbook_id", "playbook_name", "eligibility"}, playbook_id |-> "9",
     playbook_name |-> "check_cpu_utilization", eligibility |-> "auto", complete |-> TRUE],
    [keys |-> {"playbook_id", "eligibility"}, playbook_id |-> "99",
     playbook_name |-> "", eligibility |-> "human-only", complete |-> TRUE],
    [keys |-> {"playbook_name", "eligibility"}, playbook_id |-> "",
     playbook_name |-> "Demo Job Template", eligibility |-> "auto", complete |-> TRUE],
    [keys |-> {"playbook_id", "playbook_name"}, playbook_id |-> "7",
     playbook_name |-> "Demo Job Template", eligibility |-> "", complete |-> TRUE],
    [keys |-> {"playbook_id", "playbook_name", "eligibility"}, playbook_id |-> "7",
     playbook_name |-> "Demo Job Template", eligibility |-> "auto", complete |-> FALSE] }

\* next(pb["name"] for pb in playbooks if str(pb["id"]) == id), "unknown")
RECURSIVE NameOf(_, _)
NameOf(pbs, id) ==
  IF pbs = <<>> THEN "unknown"
  ELSE IF Head(pbs).id = id THEN Head(pbs).name
  ELSE NameOf(Tail(pbs), id)

\* planner.py lines 205-211: the override by a specific suggestion
PlanOverride(parsed, suggested) ==
  LET selected_id == IF "playbook_id" \in parsed.keys THEN parsed.playbook_id ELSE "None"
  IN IF suggested.id # "7" /\ selected_id # suggested.id
       THEN [parsed EXCEPT !.keys = @ \cup {"playbook_id", "playbook_name"},
                           !.playbook_id = suggested.id,
                           !.playbook_name = suggested.name]
       ELSE parsed

\* planner.py lines 217-218
PlanName(pdata, pbs) ==
  IF "playbook_name" \in pdata.keys /\ pdata.playbook_name # ""
    THEN pdata.playbook_name
    ELSE NameOf(pbs, pdata.playbook_id)

\* Plan(**plan_data) raises when a required field is missing
PlannerFails(parsed, suggested) ==
  \/ parsed = Unparsable
  \/ "playbook_id" \notin PlanOverride(parsed, suggested).keys
  \/ "eligibility" \notin parsed.keys
  \/ ~parsed.complete

\* the Plan built: the model has no playbook_name field, the key is dropped
PlanOf(pdata) ==
  [playbook_id |-> pdata.playbook_id, eligibility |-> pdata.eligibility]

\* orchestrator line 56 with PlannerAgent.run
Plan ==
  /\ pc = "plan"
  /\ trace' = Append(trace, "Plan")
  /\ \E llmUp \in LlmUps(oracle.plan), parsed \in Answers(oracle.plan, PlannerOutputs), dbOk \in DbOutcomes(dbmode) :
       IF ctx.classification = None
         THEN Abort("Plan") /\ UNCHANGED <<ctx, db>>
         ELSE LET suggested == SuggestedPlaybook(ctx.classification.labels, ctx.incident.text)
              IN IF ~llmUp \/ PlannerFails(parsed, suggested)
                   THEN Abort("Plan") /\ UNCHANGED <<ctx, db>>
                   ELSE /\ Persist("Plan", dbOk)
                        /\ IF PersistAborts(dbOk)
                             THEN Abort("Plan") /\ UNCHANGED ctx
                             ELSE /\ ctx' = [ctx EXCEPT !.plan = PlanOf(PlanOverride(parsed, suggested))]
                                  /\ pc' = "execute"
                                  /\ UNCHANGED <<result, raised>>
  /\ UNCHANGED <<raw, playbooks, jobs, nextJob, execs, ticket, policyVars, pollVars, dbmode, oracle, lookup, hostVars, oracle_closure>>

(* ------------------------------- Execute ------------------------------- *)
\* the statuses at which poll_job stops
TerminalStatuses == {"successful", "failed", "error", "canceled"}

\* the event lists the runner reports for a job
RunnerEvents == {<<>>, <<[event |-> "runner_on_ok"]>>}

\* what AWXClient.poll_job returns: a terminal status with the finish time
\* the runner reports (it may be missing), or a timeout without finish time
PollResults ==
  [status : TerminalStatuses, events : RunnerEvents, finished_at : {NoneStr, "T1"}]
  \cup [status : {"timeout"}, events : RunnerEvents, finished_at : {NoneStr}]

\* the substituted record reports the mock job as a success
FailedExecutionMutant(local) ==
  [job_id |-> Str(local),
   steps |-> <<>>,
   status |-> "success",
   finished_at |-> NoneStr]

\* executor.py lines 39-46: the record substituted when launch or poll raised
FailedExecution(local) ==
  [job_id |-> Str(local),
   steps |-> <<[event |-> "error"]>>,
   status |-> "failed",
   finished_at |-> NoneStr]

\* executor.py lines 48-54 after a launch and poll that returned
PolledExecution(job, polled) ==
  [job_id |-> Str(job),
   steps |-> polled.events,
   status |-> polled.status,
   finished_at |-> polled.finished_at]

\* the first execution goes straight to Close, the retry is validated
AfterExecuteMutant(at) == IF at = "execute" THEN "close" ELSE "validate"

\* where run goes after an Execute: the first one is validated, the retry
\* of the rollback branch is followed by Close
AfterExecute(at) == IF at = "execute" THEN "validate" ELSE "close"

\* executor.py lines 32-63: the record and the history of one invocation;
\* the launch raised, or the poll raised, or the poll returned
ExecutionOutcomes(job, at) ==
  { [record |-> FailedExecution(local), launched |-> FALSE,
     hist |-> [launch |-> "raised", poll |-> "none", runner_job |-> NoneStr,
               local_job |-> Str(local), at |-> at]] : local \in 0..MaxLocalJob }
  \cup
  { [record |-> FailedExecution(local), launched |-> TRUE,
     hist |-> [launch |-> "ok", poll |-> "raised", runner_job |-> Str(job),
               local_job |-> Str(local), at |-> at]] : local \in 0..MaxLocalJob }
  \cup
  { [record |-> PolledExecution(job, polled), launched |-> TRUE,
     hist |-> [launch |-> "ok", poll |-> "ok", runner_job |-> Str(job),
               local_job |-> NoneStr, at |-> at]] : polled \in PollResults }

\* the executor also drops the validation it was retried for
ExecuteMutant ==
  /\ pc \in {"execute", "retry"}
  /\ trace' = Append(trace, "Execute")
  /\ IF ctx.plan = None
       THEN Abort("Execute") /\ UNCHANGED <<ctx, jobs, nextJob, execs, db>>
       ELSE \E out \in ExecutionOutcomes(nextJob, pc), dbOk \in DbOutcomes(dbmode) :
              /\ IF out.launched
                   THEN /\ jobs' = Append(jobs, [id |-> nextJob, template |-> ctx.plan.playbook_id])
                        /\ nextJob' = nextJob + 1
                   ELSE UNCHANGED <<jobs, nextJob>>
              /\ execs' = Append(execs, out.hist)
              /\ Persist("Execute", dbOk)
              /\ IF PersistAborts(dbOk)
                   THEN Abort("Execute") /\ UNCHANGED ctx
                   ELSE /\ ctx' = [ctx EXCEPT !.execution = out.record, !.validation = None]
                        /\ pc' = AfterExecute(pc)
                        /\ UNCHANGED <<result, raised>>
  /\ UNCHANGED <<raw, playbooks, ticket, policyVars, pollVars, dbmode, oracle, lookup, hostVars, oracle_closure>>

\* orchestrator lines 59 and 67 with ExecutorAgent.run
Execute ==
  /\ pc \in {"execute", "retry"}
  /\ trace' = Append(trace, "Execute")
  /\ IF ctx.plan = None
       THEN Abort("Execute") /\ UNCHANGED <<ctx, jobs, nextJob, execs, db>>
       ELSE \E out \in ExecutionOutcomes(nextJob, pc), dbOk \in DbOutcomes(dbmode) :
              /\ IF out.launched
                   THEN /\ jobs' = Append(jobs, [id |-> nextJob, template |-> ctx.plan.playbook_id])
                        /\ nextJob' = nextJob + 1
                   ELSE UNCHANGED <<jobs, nextJob>>
              /\ execs' = Append(execs, out.hist)
              /\ Persist("Execute", dbOk)
              /\ IF PersistAborts(dbOk)
                   THEN Abort("Execute") /\ UNCHANGED ctx
                   ELSE /\ ctx' = [ctx EXCEPT !.execution = out.record]
                        /\ pc' = AfterExecute(pc)
                        /\ UNCHANGED <<result, raised>>
  /\ UNCHANGED <<raw, playbooks, ticket, policyVars, pollVars, dbmode, oracle, lookup, hostVars, oracle_closure>>

(* ------------------------------ Validate ------------------------------- *)
Decisions == {"success", "partial", "rollback", "escalate"}

\* the oracle's validation answers: a decision of the Literal, or one
\* outside it, or no parsable answer
ValidatorOutputs == {Unparsable} \cup [decision : Decisions \cup {"unknown"}]

\* the decision is not checked against the Literal
ValidatorFailsMutant(parsed) == parsed = Unparsable

\* ValidationSignals(**parsed_dict) raises on a decision outside the Literal
ValidatorFails(parsed) ==
  \/ parsed = Unparsable
  \/ parsed.decision \notin Decisions

\* the retry is also taken on an escalation
RollbackBranchMutant(validation) == validation.decision \in {"rollback", "escalate"}

\* the rollback branch of run (line 65)
RollbackBranch(validation) == validation.decision = "rollback"

\* an answer without a decision of the Literal is read as an escalation
ValidateMutant ==
  /\ pc = "validate"
  /\ trace' = Append(trace, "Validate")
  /\ \E llmUp \in LlmUps(oracle.validate), parsed \in Answers(oracle.validate, ValidatorOutputs), dbOk \in DbOutcomes(dbmode) :
       IF \/ ctx.execution = None
          \/ Falsy(ctx.incident.number)
          \/ ~llmUp
         THEN Abort("Validate") /\ UNCHANGED <<ctx, db>>
         ELSE /\ Persist("Validate", dbOk)
              /\ IF PersistAborts(dbOk)
                   THEN Abort("Validate") /\ UNCHANGED ctx
                   ELSE LET validation == [decision |-> IF ValidatorFails(parsed) THEN "escalate"
                                                           ELSE parsed.decision]
                        IN /\ ctx' = [ctx EXCEPT !.validation = validation]
                           /\ pc' = IF RollbackBranch(validation) THEN "retry" ELSE "close"
                           /\ UNCHANGED <<result, raised>>
  /\ UNCHANGED <<raw, playbooks, jobs, nextJob, execs, ticket, policyVars, pollVars, dbmode, oracle, lookup, hostVars, oracle_closure>>

\* orchestrator lines 62-67 with ValidatorAgent.run
Validate ==
  /\ pc = "validate"
  /\ trace' = Append(trace, "Validate")
  /\ \E llmUp \in LlmUps(oracle.validate), parsed \in Answers(oracle.validate, ValidatorOutputs), dbOk \in DbOutcomes(dbmode) :
       IF \/ ctx.execution = None
          \/ Falsy(ctx.incident.number)
          \/ ~llmUp
          \/ ValidatorFails(parsed)
         THEN Abort("Validate") /\ UNCHANGED <<ctx, db>>
         ELSE /\ Persist("Validate", dbOk)
              /\ IF PersistAborts(dbOk)
                   THEN Abort("Validate") /\ UNCHANGED ctx
                   ELSE LET validation == [decision |-> parsed.decision]
                        IN /\ ctx' = [ctx EXCEPT !.validation = validation]
                           /\ pc' = IF RollbackBranch(validation) THEN "retry" ELSE "close"
                           /\ UNCHANGED <<result, raised>>
  /\ UNCHANGED <<raw, playbooks, jobs, nextJob, execs, ticket, policyVars, pollVars, dbmode, oracle, lookup, hostVars, oracle_closure>>

(* -------------------------------- Close -------------------------------- *)
Resolutions == {"resolved", "duplicate", "false-positive", "escalated"}

\* a string of white space counts as text
BlankMutant(s) == s = ""

\* `not s or not str(s).strip()` for the strings used here
Blank(s) == s \in {"", " "}

\* the oracle's answer parsed to JSON that is not an object
NotADict == [not_a_dict |-> TRUE]

\* the oracle's closure answers; `keys` are the keys present
ClosureOutputs ==
  { Unparsable, NotADict,
    [keys |-> {"resolution", "work_notes", "resolution_summary"},
     resolution |-> "duplicate", work_notes |-> "oracle notes",
     resolution_summary |-> "oracle summary"],
    [keys |-> {"work_notes", "resolution_summary"},
     resolution |-> "", work_notes |-> " ", resolution_summary |-> ""],
    [keys |-> {"resolution"},
     resolution |-> "closed", work_notes |-> "", resolution_summary |-> ""] }

\* dict.get(key) of a string key: None when the key is missing
DictGet(d, key) == IF key \in d.keys THEN d[key] ELSE NoneStr

\* the fallback does not look at the execution status
ResolutionFallbackMutant(parsed, exec_status) ==
  IF DictGet(parsed, "resolution") \notin Resolutions
    THEN "resolved"
    ELSE parsed.resolution

\* closure.py lines 76-77: the resolution fallback
ResolutionFallback(parsed, exec_status) ==
  IF DictGet(parsed, "resolution") \notin Resolutions
    THEN IF exec_status = "successful" THEN "resolved" ELSE "escalated"
    ELSE parsed.resolution

\* closure.py line 80: the (successful, success) path
SuccessPath(exec_status, val_decision) ==
  exec_status = "successful" /\ val_decision = "success"

\* the attributes of the Plan model: it declares no playbook_name
PlanAttributes == {"playbook_id", "prechecks", "rollback_steps", "risk_score", "eligibility"}

\* closure.py lines 87-90: the fallbacks of blank texts
WorkNotes(parsed) ==
  IF DictGet(parsed, "work_notes") = NoneStr \/ Blank(parsed.work_notes)
    THEN "Closed by orchestrator." ELSE parsed.work_notes
ResolutionSummary(parsed) ==
  IF DictGet(parsed, "resolution_summary") = NoneStr \/ Blank(parsed.resolution_summary)
    THEN "Incident processed by orchestration agent." ELSE parsed.resolution_summary

\* ClosureAgent.run raises: no dict could be parsed, or the parsed value has
\* no work_notes attribute to set (line 103), or the success path reads
\* ctx.plan.playbook_name (line 84)
ClosureFails(parsed, exec_status, val_decision) ==
  \/ parsed = Unparsable
  \/ parsed = NotADict
  \/ SuccessPath(exec_status, val_decision) /\ "playbook_name" \notin PlanAttributes

\* closure.py lines 69-92: the Closure built from a parsed dict
ClosureOf(parsed, exec_status, val_decision, number) ==
  IF SuccessPath(exec_status, val_decision)
    THEN [incident_id |-> number, resolution |-> "resolved",
          work_notes |-> "Executed playbook successfully. Validation confirmed resolution.",
          resolution_summary |-> "Automated remediation successful"]
    ELSE [incident_id |-> number,
          resolution |-> ResolutionFallback(parsed, exec_status),
          work_notes |-> WorkNotes(parsed),
          resolution_summary |-> ResolutionSummary(parsed)]

\* closure.py lines 102-105: the fallbacks applied to the Closure built
ClosureDefaults(closure) ==
  [closure EXCEPT
     !.work_notes = IF @ = NoneStr \/ Blank(@) THEN "Closed by orchestrator." ELSE @,
     !.resolution_summary =
        IF @ = NoneStr \/ Blank(@) THEN "Incident resolved by orchestration pipeline." ELSE @]

\* how a call of the ticketing client ends (a client is configured): the
\* ticket is patched, or no sys_id is found and the call returns False, or
\* the call raises
SnOutcomes == {"ok", "not_found", "raised"}

\* an exception of the ticketing client is raised to the run
TicketAbortsMutant(outcome) == outcome = "raised"

\* closure.py lines 115 and 126-127: an exception of the ticketing client is
\* printed and never raised
TicketAborts(outcome) == FALSE

\* the ticket is closed whenever the execution was successful
TicketActionMutant(closure, exec_status, val_decision, number) ==
  IF exec_status = "successful"
    THEN [action |-> "close", number |-> number,
          work_notes |-> closure.work_notes, summary |-> closure.resolution_summary]
    ELSE [action |-> "add_work_notes", number |-> number,
          work_notes |-> closure.work_notes, summary |-> closure.resolution_summary]

\* closure.py lines 119-125: the call made on the ticketing client
TicketAction(closure, exec_status, val_decision, number) ==
  IF SuccessPath(exec_status, val_decision)
    THEN [action |-> "close", number |-> number,
          work_notes |-> closure.work_notes, summary |-> closure.resolution_summary]
    ELSE [action |-> "add_work_notes", number |-> number,
          work_notes |-> closure.work_notes, summary |-> closure.resolution_summary]

\* the final response drops the job id, as the other responses do
FinalResponseMutant(c) ==
  [status |-> c.validation.decision,
   incident |-> c.incident.number,
   job_id |-> NoneStr]

\* the response of a run that completed Close (lines 73-77)
FinalResponse(c) ==
  [status |-> c.validation.decision,
   incident |-> c.incident.number,
   job_id |-> IF c.execution # None THEN c.execution.job_id ELSE NoneStr]

\* closure.py lines 57-68: the oracle does not answer, or answers with text
\* that is no JSON, or with JSON that is no object, or with an object
AnswerKind(llmUp, parsed) ==
  IF ~llmUp THEN "down"
  ELSE IF parsed = Unparsable THEN "unparsable"
  ELSE IF parsed = NotADict THEN "not_a_dict"
  ELSE "dict"

\* orchestrator lines 70-77 with ClosureAgent.run
Close ==
  /\ pc = "close"
  /\ trace' = Append(trace, "Close")
  /\ \E llmUp \in LlmUps(oracle.close), parsed \in Answers(oracle.close, ClosureOutputs),
        dbOk \in DbOutcomes(dbmode), snOut \in SnOutcomes :
       IF ctx.validation = None \/ Falsy(ctx.incident.number)
         THEN Abort("Close") /\ UNCHANGED <<ctx, ticket, db, oracle_closure>>
         ELSE /\ oracle_closure' = AnswerKind(llmUp, parsed)
              /\ IF \/ ~llmUp
                    \/ ClosureFails(parsed, ctx.execution.status, ctx.validation.decision)
                THEN Abort("Close") /\ UNCHANGED <<ctx, ticket, db>>
                ELSE LET closure == ClosureDefaults(ClosureOf(parsed, ctx.execution.status,
                                               ctx.validation.decision, ctx.incident.number))
                         c == [ctx EXCEPT !.closure = closure]
                     IN /\ Persist("Close", dbOk)
                        /\ IF PersistAborts(dbOk)
                             THEN Abort("Close") /\ UNCHANGED <<ctx, ticket>>
                             ELSE /\ ticket' = Append(ticket,
                                         [call |-> TicketAction(closure, ctx.execution.status,
                                                                ctx.validation.decision,
                                                                ctx.incident.number),
                                          outcome |-> snOut])
                                  /\ IF TicketAborts(snOut)
                                       THEN Abort("Close") /\ UNCHANGED ctx
                                       ELSE /\ ctx' = c
                                            /\ result' = FinalResponse(c)
                                            /\ pc' = "done"
                                            /\ UNCHANGED raised
  /\ UNCHANGED <<raw, playbooks, jobs, nextJob, execs, policyVars, pollVars, dbmode, oracle, lookup, hostVars>>

(* ---------------------------- specification ---------------------------- *)
Next ==
  \/ Start
  \/ Intake
  \/ Prefetch
  \/ Classify
  \/ Plan
  \/ Execute
  \/ Validate
  \/ Close

Spec == Init /\ [][Next]_vars

(* -------------------- validate_playbook_selection ---------------------- *)
\* str.lower() on the labels used here
LowerLabel(l) ==
  CASE l = "P1" -> "p1"
    [] l = "HIGH_CPU" -> "high_cpu"
    [] l = "Severity" -> "severity"
    [] OTHER -> l

StorageFamily ==
  {"disk_full", "storage_full", "var_full", "tmp_full", "fs_full", "file_system_full"}

SeverityMarkers == {"severity", "p1"}

\* the label set carries a severity-critical marker (lines 31-33)
HasSeverityMarker(labels) ==
  \E i \in 1..Len(labels) : LowerLabel(labels[i]) \in SeverityMarkers

\* one enforced playbook (lines 10-16 and 19-27)
Enforce(pd, pb) ==
  IF DictGet(pd, "playbook_name") # pb.name
    THEN [pd EXCEPT !.keys = @ \cup {"playbook_id", "playbook_name"},
                    !.playbook_id = pb.id,
                    !.playbook_name = pb.name]
    ELSE pd

\* the eligibility is assigned from the marker instead of latched
SeverityOverrideMutant(pd, lower) ==
  IF "eligibility" \in pd.keys
    THEN [pd EXCEPT !.eligibility =
            IF lower \cap SeverityMarkers # {} THEN "human-only" ELSE "auto"]
    ELSE pd

\* the severity override (lines 31-34)
SeverityOverride(pd, lower) ==
  IF DictGet(pd, "eligibility") = "auto" /\ lower \cap SeverityMarkers # {}
    THEN [pd EXCEPT !.eligibility = "human-only"]
    ELSE pd

\* validate_playbook_selection with the planner's table as known_playbooks
ValidatePlaybookSelection(pd, labels) ==
  LET lower == {LowerLabel(labels[i]) : i \in 1..Len(labels)}
      cpu == IF "high_cpu" \in lower THEN Enforce(pd, PlaybookFor("high_cpu")) ELSE pd
      disk == IF lower \cap StorageFamily # {}
                THEN Enforce(cpu, PlaybookFor("disk_full")) ELSE cpu
  IN SeverityOverride(disk, lower)

\* how many times the override is applied to one plan
MaxApply == 3

\* the plan dicts and label lists the override is applied to
PlanDataInputs ==
  { [keys |-> k, playbook_id |-> pb.id, playbook_name |-> pb.name, eligibility |-> e] :
      k \in {{"playbook_id", "playbook_name", "eligibility"}, {"playbook_id", "playbook_name"}},
      pb \in {DemoPlaybook, CpuPlaybook, CleanupPlaybook},
      e \in {"auto", "human-only", "manual"} }
  \cup
  \* answers of the oracle without a name, and with the name of one playbook
  \* and the id of another
  { [keys |-> {"playbook_id", "eligibility"}, playbook_id |-> "9", playbook_name |-> "",
     eligibility |-> "auto"],
    [keys |-> {"playbook_id", "playbook_name", "eligibility"}, playbook_id |-> "7",
     playbook_name |-> CleanupPlaybook.name, eligibility |-> "auto"],
    [keys |-> {"playbook_id", "playbook_name", "eligibility"}, playbook_id |-> "7",
     playbook_name |-> CpuPlaybook.name, eligibility |-> "human-only"] }

LabelLists ==
  { <<>>, <<"P1">>, <<"Severity", "server_down">>, <<"high_cpu">>,
    <<"var_full", "p1">>, <<"HIGH_CPU", "disk_full">>, <<"server_down">> }

InitOverride ==
  /\ pc = "idle"
  /\ raw = [number |-> Absent, incident_number |-> Absent]
  /\ ctx = EmptyContext
  /\ playbooks = <<>>
  /\ result = None
  /\ trace = <<>>
  /\ jobs = <<>>
  /\ nextJob = 1
  /\ execs = <<>>
  /\ ticket = <<>>
  /\ raised = NoneStr
  /\ plan_data \in PlanDataInputs
  /\ last_labels = <<>>
  /\ applied = 0
  /\ latched = FALSE
  /\ IdlePoll
  /\ dbmode = "up"
  /\ oracle = FreeOracle
  /\ lookup = IdleLookup
  /\ IdleHost
  /\ db = <<>>
  /\ oracle_closure = NoneStr

\* one call of validate_playbook_selection on the plan dict
ApplyOverride ==
  /\ pc = "idle"
  /\ applied < MaxApply
  /\ \E labels \in LabelLists :
       /\ plan_data' = ValidatePlaybookSelection(plan_data, labels)
       /\ last_labels' = labels
       /\ latched' = (latched \/ (/\ DictGet(plan_data, "eligibility") = "auto"
                                  /\ HasSeverityMarker(labels)))
  /\ applied' = applied + 1
  /\ UNCHANGED <<pc, raw, ctx, playbooks, result, trace, jobs, nextJob, execs,
                 ticket, raised, pollVars, dbmode, oracle, lookup, hostVars, oracle_closure, db>>

SpecOverride == InitOverride /\ [][ApplyOverride]_vars

(* ------------------ ExecutorAgent.run, step by step -------------------- *)
\* bounds of the poll loop: the caller's timeout and the duration of one
\* request to the runner, in seconds
MaxTimeout == 4
MaxCallTime == 1

\* poll_job's default poll_interval, which the executor does not override
PollInterval == 2

\* the statuses the runner reports while a job is not finished; "unknown"
\* is job_status's default for details without a status
RunningStatuses == {"running", "unknown"}
RunnerStatuses == RunningStatuses \cup TerminalStatuses

\* the loop stops on every status but "unknown"
PollStopsMutant(status) == status # "unknown"

\* awx_client.py line 150: the loop stops on a terminal status
PollStops(status) == status \in TerminalStatuses

\* the timeout has to be exceeded
TimedOutMutant(elapsed, timeout) == elapsed > timeout

\* awx_client.py line 157
TimedOut(elapsed, timeout) == elapsed >= timeout

\* a run that has attached a plan and enters ExecutorAgent.run
InitExecute ==
  /\ pc = "execute"
  /\ raw = [number |-> "INC1", incident_number |-> Absent]
  /\ ctx = [EmptyContext EXCEPT
              !.incident = [number |-> "INC1", severity |-> "P2", text |-> TextPlain],
              !.classification = [labels |-> <<"server_down">>, severity |-> "P2",
                                  eligibility |-> "auto", confidence |-> 9],
              !.plan = [playbook_id |-> "7", eligibility |-> "auto"]]
  /\ playbooks = Catalog
  /\ result = None
  /\ trace = <<"Intake", "Classify", "Plan">>
  /\ jobs = <<>>
  /\ nextJob \in 1..MaxFirstJob
  /\ execs = <<>>
  /\ ticket = <<>>
  /\ raised = NoneStr
  /\ IdlePolicy
  /\ poll_pc = "launch"
  /\ clock = 0
  /\ timeout_seconds \in 0..MaxTimeout
  /\ poll_status = NoneStr
  /\ poll_events = <<>>
  /\ poll_result = None
  /\ fetched = <<>>
  /\ events_failed = FALSE
  /\ sleeps = 0
  /\ late_sleeps = 0
  /\ dbmode \in DbModes
  /\ oracle = FreeOracle
  /\ lookup = IdleLookup
  /\ IdleHost
  /\ db = <<>>
  /\ oracle_closure = NoneStr

runVars == <<pc, raw, ctx, playbooks, result, trace, execs, ticket, raised,
             policyVars, dbmode, oracle, lookup, hostVars, db, oracle_closure>>

\* executor.py line 33: launch_job returns the id of the new job, or raises
LaunchJob ==
  /\ poll_pc = "launch"
  /\ \/ /\ jobs' = Append(jobs, [id |-> nextJob, template |-> ctx.plan.playbook_id])
        /\ nextJob' = nextJob + 1
        /\ poll_pc' = "status"
     \/ /\ poll_pc' = "raised"
        /\ UNCHANGED <<jobs, nextJob>>
  /\ UNCHANGED <<runVars, clock, timeout_seconds, events_failed, poll_status, poll_events,
                 poll_result, fetched, sleeps, late_sleeps>>

\* awx_client.py line 141: job_status returns after some time, or raises
PollStatus ==
  /\ poll_pc = "status"
  /\ \E d \in 0..MaxCallTime :
       /\ clock' = clock + d
       /\ \/ \E s \in RunnerStatuses : poll_status' = s /\ poll_pc' = "events"
          \/ poll_pc' = "raised" /\ UNCHANGED poll_status
  /\ UNCHANGED <<runVars, jobs, nextJob, timeout_seconds, events_failed, poll_events, poll_result,
                 fetched, sleeps, late_sleeps>>

\* an exception of job_events leaves poll_job
EventsAbortMutant(ok) == ~ok

\* awx_client.py lines 146-148: an exception of job_events is passed over
EventsAbort(ok) == FALSE

\* awx_client.py lines 143-148: a fetch of the events that fails keeps the
\* events of the fetch before
PollEvents ==
  /\ poll_pc = "events"
  /\ \E d \in 0..MaxCallTime, ok \in BOOLEAN :
       /\ clock' = clock + d
       /\ events_failed' = ~ok
       /\ IF ok
            THEN \E e \in RunnerEvents : poll_events' = e /\ fetched' = e
            ELSE UNCHANGED <<poll_events, fetched>>
       /\ poll_pc' = IF EventsAbort(ok) THEN "raised" ELSE "check"
  /\ UNCHANGED <<runVars, jobs, nextJob, timeout_seconds, poll_status, poll_result,
                 sleeps, late_sleeps>>

\* awx_client.py lines 150 and 156-158
PollCheck ==
  /\ poll_pc = "check"
  /\ IF PollStops(poll_status)
       THEN poll_pc' = "details" /\ UNCHANGED poll_result
       ELSE IF TimedOut(clock, timeout_seconds)
              THEN /\ poll_result' = [status |-> "timeout", events |-> poll_events,
                                      finished_at |-> NoneStr]
                   /\ poll_pc' = "returned"
              ELSE poll_pc' = "sleep" /\ UNCHANGED poll_result
  /\ UNCHANGED <<runVars, jobs, nextJob, clock, timeout_seconds, events_failed, poll_status,
                 poll_events, fetched, sleeps, late_sleeps>>

\* awx_client.py lines 152-154: the finish time of the job details
PollDetails ==
  /\ poll_pc = "details"
  /\ \E d \in 0..MaxCallTime :
       /\ clock' = clock + d
       /\ \/ \E finished \in {NoneStr, "T1"} :
               /\ poll_result' = [status |-> poll_status, events |-> poll_events,
                                  finished_at |-> finished]
               /\ poll_pc' = "returned"
          \/ poll_pc' = "raised" /\ UNCHANGED poll_result
  /\ UNCHANGED <<runVars, jobs, nextJob, timeout_seconds, events_failed, poll_status, poll_events,
                 fetched, sleeps, late_sleeps>>

\* awx_client.py line 160
PollSleep ==
  /\ poll_pc = "sleep"
  /\ clock' = clock + PollInterval
  /\ sleeps' = sleeps + 1
  /\ late_sleeps' = IF clock' >= timeout_seconds THEN late_sleeps + 1 ELSE late_sleeps
  /\ poll_pc' = "status"
  /\ UNCHANGED <<runVars, jobs, nextJob, timeout_seconds, events_failed, poll_status, poll_events,
                 poll_result, fetched>>

\* executor.py lines 39-63: the record of what poll_job returned, or the
\* substituted record when launch_job or poll_job raised
AttachExecution ==
  /\ poll_pc \in {"returned", "raised"}
  /\ \E local \in 0..MaxLocalJob, dbOk \in DbOutcomes(dbmode) :
       /\ ctx' = [ctx EXCEPT !.execution =
                    IF poll_pc = "returned"
                      THEN PolledExecution(jobs[Len(jobs)].id, poll_result)
                      ELSE FailedExecution(local)]
       /\ execs' = Append(execs,
                     [launch |-> IF jobs = <<>> THEN "raised" ELSE "ok",
                      poll |-> IF jobs = <<>> THEN "none"
                               ELSE IF poll_pc = "returned" THEN "ok" ELSE "raised",
                      runner_job |-> IF jobs = <<>> THEN NoneStr ELSE Str(jobs[Len(jobs)].id),
                      local_job |-> IF poll_pc = "returned" THEN NoneStr ELSE Str(local),
                      at |-> pc])
       /\ Persist("Execute", dbOk)
  /\ trace' = Append(trace, "Execute")
  /\ pc' = AfterExecute(pc)
  /\ poll_pc' = "done"
  /\ UNCHANGED <<raw, playbooks, result, jobs, nextJob, ticket, raised, policyVars,
                 dbmode, oracle, lookup, hostVars, oracle_closure, clock, timeout_seconds, events_failed, poll_status, poll_events,
                 poll_result, fetched, sleeps, late_sleeps>>

NextExecute ==
  \/ LaunchJob
  \/ PollStatus
  \/ PollEvents
  \/ PollCheck
  \/ PollDetails
  \/ PollSleep
  \/ AttachExecution

\* the coroutine is resumed whenever the request or the sleep it awaits ends
SpecExecute == InitExecute /\ [][NextExecute]_vars /\ WF_vars(NextExecute)

(* ------------------- runs with a failing store ------------------------- *)
\* a run for an incident with its ticket number, with the store in any mode
InitPersist ==
  /\ pc = "start"
  /\ raw = [number |-> "INC1", incident_number |-> "INC2"]
  /\ ctx = EmptyContext
  /\ playbooks = <<>>
  /\ result = None
  /\ trace = <<>>
  /\ jobs = <<>>
  /\ nextJob \in 1..MaxFirstJob
  /\ execs = <<>>
  /\ ticket = <<>>
  /\ raised = NoneStr
  /\ IdlePolicy
  /\ IdlePoll
  /\ dbmode \in DbModes
  /\ oracle = FreeOracle
  /\ lookup = IdleLookup
  /\ IdleHost
  /\ db = <<>>
  /\ oracle_closure = NoneStr

SpecPersist == InitPersist /\ [][Next]_vars

(* ------------------------ Plan on chosen labels ------------------------ *)
\* incident texts that name /var (and so contain "var"), with and without a
\* CPU keyword
TextVar == {"/var", "var"}
TextCpuVar == {"cpu", "/var", "var"}
PlanTexts == {TextPlain, TextCpu, TextVar, TextCpuVar}

\* label lists a classification can carry
PlanLabelLists ==
  { <<"unknown">>, <<"server_down">>, <<"high_cpu">>, <<"high_cpu", "server_down">>,
    <<"disk_full", "high_cpu">>, <<"high_cpu", "disk_full">>, <<"var_full">>,
    <<"server_down", "tmp_full">>, <<"network_error", "fs_full">>,
    <<"disk_usage_high", "high_cpu">> }

\* the plan answers of the oracle followed here: those of PlannerOutputs and
\* one with an id the runner does not list under the name of a listed
\* procedure
PlanAnswers ==
  PlannerOutputs \cup
  { [keys |-> {"playbook_id", "playbook_name", "eligibility"}, playbook_id |-> "99",
     playbook_name |-> "check_cpu_utilization", eligibility |-> "auto", complete |-> TRUE] }

\* a run that has attached a classification with eligibility auto (its
\* labels include those of the heuristic) and enters PlannerAgent.run with
\* an oracle whose plan answer is known
InitPlan ==
  /\ pc = "plan"
  /\ raw = [number |-> "INC1", incident_number |-> Absent]
  /\ \E text \in PlanTexts, labels \in PlanLabelLists :
       /\ HeuristicLabels(text) \subseteq Range(labels)
       /\ ctx = [EmptyContext EXCEPT
                   !.incident = [number |-> "INC1", severity |-> "P2", text |-> text],
                   !.classification = [labels |-> labels, severity |-> "P2",
                                       eligibility |-> "auto", confidence |-> 9]]
  /\ playbooks \in {<<>>, Catalog}
  /\ result = None
  /\ trace = <<"Intake", "Classify">>
  /\ jobs = <<>>
  /\ nextJob \in 1..MaxFirstJob
  /\ execs = <<>>
  /\ ticket = <<>>
  /\ raised = NoneStr
  /\ IdlePolicy
  /\ IdlePoll
  /\ dbmode = "up"
  /\ \E answer \in PlanAnswers : oracle = [FreeOracle EXCEPT !.plan = Pinned(answer)]
  /\ lookup = IdleLookup
  /\ IdleHost
  /\ db = <<[stage |-> "Intake", ok |-> TRUE], [stage |-> "Classify", ok |-> TRUE]>>
  /\ oracle_closure = NoneStr

\* orchestrator lines 56-59
NextPlan ==
  \/ Plan
  \/ Execute

SpecPlan == InitPlan /\ [][NextPlan]_vars

(* ------------------------------ properties ----------------------------- *)
HumanGated == ctx.classification # None /\ ctx.classification.eligibility = "human-only"

\* C1: a classification with eligibility human-only ends the run at once with
\* awaiting_approval, the incident number and no job id; Plan, Execute,
\* Validate and Close are not invoked, no job is launched and no ticket action
\* is taken.
C1_HumanOnlyAwaitsApproval ==
  HumanGated =>
    /\ pc = "done"
    /\ result = [status |-> "awaiting_approval", incident |-> ctx.incident.number,
                 job_id |-> NoneStr]
    /\ trace = <<"Intake", "Classify">>
    /\ jobs = <<>>
    /\ ticket = <<>>

C1_Witness == HumanGated /\ pc = "done"

\* C2: when the final label set carries a P1/severity marker the classification
\* attached has eligibility human-only and the run returns awaiting_approval
\* without invoking Plan, Execute, Validate or Close.
C2_SeverityMarkerGatesRun ==
  (ctx.classification # None /\ HasSeverityMarker(ctx.classification.labels)) =>
    /\ ctx.classification.eligibility = "human-only"
    /\ pc = "done"
    /\ result # None
    /\ result.status = "awaiting_approval"
    /\ trace = <<"Intake", "Classify">>

C4_SingleRetry ==
  /\ Count(trace, "Execute") <= 2
  /\ Count(trace, "Validate") <= 1
  /\ (ctx.validation # None /\ pc \in {"close", "done"}) =>
       (Count(trace, "Execute") = 2 <=> ctx.validation.decision = "rollback")
  /\ Count(trace, "Execute") = 2 =>
       \/ trace = <<"Intake", "Classify", "Plan", "Execute", "Validate", "Execute">>
       \/ trace = <<"Intake", "Classify", "Plan", "Execute", "Validate", "Execute", "Close">>

C4_Witness ==
  /\ pc = "done"
  /\ ctx.closure # None
  /\ Count(trace, "Execute") = 2
  /\ ctx.validation.decision = "rollback"

StageOrders ==
  { <<"Intake", "Classify", "Plan", "Execute", "Validate", "Close">>,
    <<"Intake", "Classify", "Plan", "Execute", "Validate", "Execute", "Close">> }

\* the context field a stage writes
StageField(stage) ==
  CASE stage = "Intake" -> "incident"
    [] stage = "Classify" -> "classification"
    [] stage = "Plan" -> "plan"
    [] stage = "Execute" -> "execution"
    [] stage = "Validate" -> "validation"
    [] stage = "Close" -> "closure"

\* C5: the stages invoked are a prefix of Intake, Classify, Plan, Execute,
\* Validate, (Execute,) Close, and every stage before the last one invoked
\* has returned and stored its output in the context.
C5_SequentialStages ==
  /\ \E order \in StageOrders : IsPrefix(trace, order)
  /\ \A i \in 1..(Len(trace) - 1) : ctx[StageField(trace[i])] # None
  /\ (pc \notin {"start", "done"} /\ trace # <<>>) => ctx[StageField(Last(trace))] # None

C5_Witness ==
  /\ pc = "done"
  /\ trace = <<"Intake", "Classify", "Plan", "Execute", "Validate", "Execute", "Close">>
  /\ ctx.closure # None

\* the job id the latest Execute invocation put in its record
LatestJobId ==
  IF Last(execs).local_job # NoneStr THEN Last(execs).local_job ELSE Last(execs).runner_job

\* C6: when Close completes, the result has the Validate decision as status,
\* the incident number Intake set, and the job id of the latest execution.
C6_FinalResult ==
  (pc = "done" /\ ctx.closure # None) =>
    /\ result.status = ctx.validation.decision
    /\ result.incident = ctx.incident.number
    /\ result.job_id = LatestJobId

C6_Witness ==
  /\ pc = "done"
  /\ ctx.closure # None
  /\ Len(execs) = 2
  /\ execs[1].runner_job # NoneStr
  /\ result.job_id = execs[2].runner_job
  /\ result.job_id # execs[1].runner_job

\* C7: when a stage raised, the result is error without job id and carries
\* the incident number whenever Intake had attached an incident.
C7_ErrorKeepsIncident ==
  raised # NoneStr =>
    /\ pc = "done"
    /\ result.status = "error"
    /\ result.job_id = NoneStr
    /\ (ctx.incident # None => result.incident = ctx.incident.number)

ResultStatuses ==
  {"error", "awaiting_approval", "success", "partial", "rollback", "escalate"}

\* C8: a run that has ended, whether or not a stage raised, has returned a
\* result whose status is one of the six result statuses.
C8_ResultStatus ==
  /\ (pc = "done") <=> (result # None)
  /\ raised # NoneStr => pc = "done"
  /\ result # None => result.status \in ResultStatuses

C8_Witness ==
  /\ pc = "done"
  /\ raised = "Close"
  /\ result.status = "error"
  /\ jobs # <<>>

NoTicketNumber(r) == Falsy(r.number) /\ Falsy(r.incident_number)

\* C9: for a raw incident without ticket number Intake fails, the result is
\* error without job id, and no later stage runs.
C9_MissingNumberFailsIntake ==
  (NoTicketNumber(raw) /\ trace # <<>>) =>
    /\ raised = "Intake"
    /\ result = [status |-> "error", incident |-> "unknown", job_id |-> NoneStr]
    /\ trace = <<"Intake">>

LocalJobIds == {Str(n) : n \in 0..MaxLocalJob}

\* C10: an Execute whose launch call raised attaches a record with status
\* failed, a diagnostic event, a locally generated job id and no finish
\* time, and the run goes on: to Validate after the first execution, to
\* Close after the retry.
C10_LaunchFailureIsRecorded ==
  (execs # <<>> /\ Last(execs).launch = "raised") =>
    /\ ctx.execution.status = "failed"
    /\ ctx.execution.steps # <<>>
    /\ ctx.execution.job_id = Last(execs).local_job
    /\ ctx.execution.job_id \in LocalJobIds
    /\ ctx.execution.finished_at = NoneStr
    /\ Len(execs) = 1 => (pc = "validate" \/ Count(trace, "Validate") = 1)
    /\ Len(execs) = 2 => (pc = "close" \/ Last(trace) = "Close")

C10_Witness ==
  /\ Len(execs) = 1
  /\ execs[1].launch = "raised"
  /\ ctx.validation # None
  /\ jobs = <<>>


\* C11: poll_job always ends, and with it ExecutorAgent.run. When the status
\* read last is not terminal and poll_job has returned, it returned exactly
\* timeout with the events of the last fetch that succeeded and no finish
\* time, the timeout had elapsed, and the loop was no more than one poll
\* interval and the two requests of one iteration past it; at most one sleep
\* ends at or after the timeout.
C11_PollTerminates ==
  /\ <>(poll_pc = "done")
  /\ [](late_sleeps <= 1)
  /\ []((poll_result # None /\ poll_status \notin TerminalStatuses) =>
          /\ poll_result = [status |-> "timeout", events |-> fetched,
                            finished_at |-> NoneStr]
          /\ clock >= timeout_seconds
          /\ clock < timeout_seconds + PollInterval + 2 * MaxCallTime)

C11_Witness ==
  /\ poll_pc = "done"
  /\ poll_result # None
  /\ poll_result.status = "timeout"
  /\ poll_status = "running"
  /\ sleeps >= 2
  /\ late_sleeps = 1
  /\ fetched # <<>>

\* C12: an execution record attached to the context has status successful,
\* failed, error, canceled or timeout, never running or another status that
\* is not terminal, and has no finish time when the status is timeout; what
\* poll_job returns is one of the results Execute draws from.
C12_TerminalStatusOnly ==
  /\ ctx.execution # None =>
       /\ ctx.execution.status \in TerminalStatuses \cup {"timeout"}
       /\ ctx.execution.status = "timeout" => ctx.execution.finished_at = NoneStr
  /\ poll_result # None => poll_result \in PollResults

C12_Witness ==
  /\ ctx.execution # None
  /\ ctx.execution.status = "timeout"
  /\ ctx.execution.finished_at = NoneStr
  /\ poll_status = "unknown"
  /\ sleeps >= 1

\* the calls made on the ticketing system that closed, or would have closed,
\* the ticket
CloseCalls == {i \in 1..Len(ticket) : ticket[i].call.action = "close"}
NoteCalls == {i \in 1..Len(ticket) : ticket[i].call.action = "add_work_notes"}

\* C13: a run in which Close reached its ticket action has made exactly one
\* call on the ticketing system, to close the ticket or to append work
\* notes, never both; the call closes the ticket if and only if the
\* execution status is successful and the decision is success, and appends
\* work notes only otherwise.
C13_OneTicketAction ==
  /\ Len(ticket) <= 1
  /\ ctx.closure # None => Len(ticket) = 1
  /\ ticket # <<>> =>
       /\ Cardinality(CloseCalls) + Cardinality(NoteCalls) = 1
       /\ ticket[1].call.number = ctx.incident.number
       /\ CloseCalls # {} <=> SuccessPath(ctx.execution.status, ctx.validation.decision)
       /\ NoteCalls # {} <=> ~SuccessPath(ctx.execution.status, ctx.validation.decision)

C13_Witness ==
  /\ pc = "done"
  /\ ctx.closure # None
  /\ ctx.execution.status = "successful"
  /\ ctx.validation.decision = "partial"
  /\ NoteCalls = {1}
  /\ ticket[1].outcome = "ok"

\* C14: when the execution status is successful and the decision is success
\* and the oracle answered Close with a JSON object, Close attaches a closure
\* with resolution resolved, the ticket is closed and the result of the run
\* is success.
C14_SuccessPathCloses ==
  (/\ oracle_closure = "dict"
   /\ SuccessPath(ctx.execution.status, ctx.validation.decision)) =>
    /\ ctx.closure # None
    /\ ctx.closure.resolution = "resolved"
    /\ CloseCalls # {}
    /\ result.status = "success"
    /\ raised = NoneStr

\* no text, the empty text and white space
BlankTexts == {NoneStr, "", " "}

\* C15: whatever the oracle answered, the closure that leaves Close has work
\* notes and a resolution summary that are not blank, and so has every call
\* made on the ticketing system.
C15_ClosureTextsNotBlank ==
  /\ ctx.closure # None =>
       /\ ctx.closure.work_notes \notin BlankTexts
       /\ ctx.closure.resolution_summary \notin BlankTexts
  /\ \A i \in 1..Len(ticket) :
       /\ ticket[i].call.work_notes \notin BlankTexts
       /\ ticket[i].call.summary \notin BlankTexts

C15_Witness ==
  /\ ctx.closure # None
  /\ ctx.closure.work_notes = "Closed by orchestrator."
  /\ ctx.closure.resolution_summary = "Incident processed by orchestration agent."
  /\ ticket # <<>>
  /\ ticket[1].call.work_notes = "Closed by orchestrator."

\* C16: when the call on the ticketing system failed, Close has still
\* attached its closure and nothing was raised: the run ends with the result
\* it has when the call succeeds, the decision of Validate with the incident
\* number and the job id of the latest execution.
C16_TicketFailureSwallowed ==
  (ticket # <<>> /\ ticket[1].outcome # "ok") =>
    /\ pc = "done"
    /\ raised = NoneStr
    /\ ctx.closure # None
    /\ result = FinalResponse(ctx)
    /\ result.status = ctx.validation.decision

C16_Witness ==
  /\ ticket # <<>>
  /\ ticket[1].outcome = "raised"
  /\ ctx.closure # None
  /\ result.status = "escalate"

\* the persistence calls that failed
FailedCalls == {i \in 1..Len(db) : ~db[i].ok}

\* C17: a failure of a stage's persistence call changes nothing else: the
\* stage has attached its output and has not raised, every stage invoked
\* has either raised or gone on past its persistence call, and a run that
\* completed Close has made its ticket call and returned the result of a run
\* whose calls all succeeded.
C17_PersistenceFailureIgnored ==
  /\ \A i \in 1..Len(db) :
       /\ ctx[StageField(db[i].stage)] # None
       /\ raised # db[i].stage
  /\ Len(db) = Len(trace) - (IF raised = NoneStr THEN 0 ELSE 1)
  /\ \A i \in 1..Len(db) : db[i].stage = trace[i]
  /\ Len(jobs) = Cardinality({i \in 1..Len(execs) : execs[i].launch = "ok"})
  /\ ctx.closure # None =>
       /\ Len(ticket) = 1
       /\ result = FinalResponse(ctx)

C17_Witness ==
  /\ pc = "done"
  /\ ctx.closure # None
  /\ Len(db) = 7
  /\ FailedCalls = 1..7
  /\ Len(jobs) = 2
  /\ ticket[1].outcome = "ok"
  /\ result.status = "rollback"

\* the labels of the classification attached
Labels == Range(ctx.classification.labels)

\* C18: whenever the labels contain high_cpu, whatever the other labels,
\* their order, the incident text and the oracle's choice, the plan attached
\* has the id of the CPU entry, 9.
C18_CpuLabelGivesCpuPlaybook ==
  (ctx.plan # None /\ "high_cpu" \in Labels) => ctx.plan.playbook_id = "9"

\* C19: whenever the labels contain a storage-family marker, whatever the
\* other labels, their order and the oracle's choice, the plan attached has
\* the id of the filesystem-cleanup entry, 10.
C19_StorageLabelGivesCleanupPlaybook ==
  (ctx.plan # None /\ Labels \cap StorageFamily # {}) => ctx.plan.playbook_id = "10"

\* the ids of the catalog snapshot of the run, and the id that stands for
\* "no suitable playbook"
SnapshotIds == {playbooks[i].id : i \in 1..Len(playbooks)}
NoSuitablePlaybook == "None"

\* C20: the plan attached has a playbook id of the catalog snapshot of the
\* run or the "no suitable playbook" id, and Execute never attempts a launch
\* with a plan of another id.
C20_PlanIdInCatalog ==
  /\ ctx.plan # None => ctx.plan.playbook_id \in SnapshotIds \cup {NoSuitablePlaybook}
  /\ execs # <<>> => ctx.plan.playbook_id \in SnapshotIds \cup {NoSuitablePlaybook}

\* the oracle's plan answer names an id that the catalog snapshot lacks
OracleIdUnknown ==
  /\ oracle.plan.pinned
  /\ oracle.plan.answer # Unparsable
  /\ "playbook_id" \in oracle.plan.answer.keys
  /\ oracle.plan.answer.playbook_id \notin SnapshotIds

\* C21: when the id the oracle chose is not in the catalog, Plan either
\* attaches the id of the catalog entry with exactly the name the oracle
\* gave, or raises, and then the run ends with error and no job launched.
C21_UnknownIdResolvedByNameOrFails ==
  (OracleIdUnknown /\ Count(trace, "Plan") = 1) =>
    \/ /\ ctx.plan # None
       /\ \E i \in 1..Len(playbooks) :
            /\ playbooks[i].name = oracle.plan.answer.playbook_name
            /\ playbooks[i].id = ctx.plan.playbook_id
    \/ /\ raised = "Plan"
       /\ result.status = "error"
       /\ jobs = <<>>

(* ----------------------- The planner's label loop ---------------------- *)
\* labels a classification can carry: tabled ones, ones outside the table
\* with and without a root token, and upper-case spellings
LookupLabels ==
  {"disk_full", "storage_issue", "random_label_with_disk", "filesystem_problem",
   "DISK_FULL", "workspace_low", "var_full", "tmp_full", "fs_full",
   "file_system_full", "high_cpu", "HIGH_CPU", "network_error", "high_memory",
   "server_down", "unknown"}

MaxLabels == 2

LookupLabelLists == UNION { [1..n -> LookupLabels] : n \in 1..MaxLabels }

\* PlannerAgent.run has passed its guards on a classification with the given
\* labels and enters the loop of lines 136-141
InitLookup ==
  /\ pc = "plan"
  /\ raw = [number |-> "INC1", incident_number |-> Absent]
  /\ \E labels \in LookupLabelLists :
       ctx = [EmptyContext EXCEPT
                !.incident = [number |-> "INC1", severity |-> "P2", text |-> TextPlain],
                !.classification = [labels |-> labels, severity |-> "P2",
                                    eligibility |-> "auto", confidence |-> 9]]
  /\ playbooks = Catalog
  /\ result = None
  /\ trace = <<"Intake", "Classify">>
  /\ jobs = <<>>
  /\ nextJob = 1
  /\ execs = <<>>
  /\ ticket = <<>>
  /\ raised = NoneStr
  /\ IdlePolicy
  /\ IdlePoll
  /\ dbmode = "up"
  /\ oracle = FreeOracle
  /\ lookup = [IdleLookup EXCEPT !.i = 1]
  /\ IdleHost
  /\ db = <<[stage |-> "Intake", ok |-> TRUE], [stage |-> "Classify", ok |-> TRUE]>>
  /\ oracle_closure = NoneStr

lookupFrame == <<pc, raw, ctx, playbooks, result, trace, jobs, nextJob, execs, ticket,
                 raised, policyVars, pollVars, dbmode, oracle, db, oracle_closure,
                 hostVars>>

\* planner.py lines 137-141: one turn of the loop
LookupLabel ==
  /\ lookup.suggested_playbook = None
  /\ lookup.i \in 1..Len(ctx.classification.labels)
  /\ LET label == ctx.classification.labels[lookup.i]
         pb == PlaybookFor(label)
     IN  lookup' = IF pb.id # "7"
                     THEN [lookup EXCEPT !.label = label, !.pb = pb,
                                         !.suggested_playbook = pb]
                     ELSE [lookup EXCEPT !.label = label, !.pb = pb, !.i = @ + 1]
  /\ UNCHANGED lookupFrame

\* planner.py lines 143-144: no label gave a specific playbook
LookupDefault ==
  /\ lookup.suggested_playbook = None
  /\ lookup.i > Len(ctx.classification.labels)
  /\ lookup' = [lookup EXCEPT !.label = "default", !.pb = PlaybookFor("default"),
                              !.suggested_playbook = PlaybookFor("default")]
  /\ UNCHANGED lookupFrame

NextLookup ==
  \/ LookupLabel
  \/ LookupDefault

SpecLookup == InitLookup /\ [][NextLookup]_vars

\* the labels of LookupLabels whose text holds "disk", "storage", "filesystem"
\* or "space" in any case
C22_RootTokenLabels ==
  {"disk_full", "storage_issue", "random_label_with_disk", "filesystem_problem",
   "DISK_FULL", "workspace_low"}

\* the keys of the table of lines 34-55
C22_Tabled ==
  {"server_down", "high_cpu", "high_memory", "disk_full", "storage_full",
   "storage_space_warning", "file_system_full", "filesystem_cleanup",
   "out_of_space", "var_full", "tmp_full", "fs_full", "disk_usage_high",
   "disk_space", "filesystem_issue", "storage_issue", "critical_disk_space",
   "database_down", "network_error", "application_crash"}

\* C22: every label looked up yields exactly one descriptor: the cleanup
\* playbook (id 10) for a label holding a root token, tabled or not, and for
\* var_full, tmp_full, fs_full and file_system_full; the CPU playbook (id 9)
\* for high_cpu; the default playbook (id 7) for a label that is neither in
\* the table nor holds a root token.
C22_LookupMapsLabels ==
  lookup.label # NoneStr =>
    /\ lookup.pb \in {DemoPlaybook, CpuPlaybook, CleanupPlaybook}
    /\ lookup.label \in C22_RootTokenLabels => lookup.pb = CleanupPlaybook
    /\ lookup.label \in {"var_full", "tmp_full", "fs_full", "file_system_full"}
         => lookup.pb = CleanupPlaybook
    /\ lookup.label = "high_cpu" => lookup.pb = CpuPlaybook
    /\ lookup.label \notin C22_Tabled \cup C22_RootTokenLabels
         => lookup.pb = DemoPlaybook

C22_Witness ==
  /\ lookup.i = 2
  /\ lookup.label = "random_label_with_disk"
  /\ lookup.pb.id = "10"
  /\ ctx.classification.labels[1] = "HIGH_CPU"

(* --------------------- Classify on a known answer ---------------------- *)
\* incident texts with storage, /var, CPU and memory keywords
TextDisk == {"disk"}
TextDiskVar == {"disk", "var"}
TextCpuMemory == {"cpu", "memory"}
ClassifyTexts == {TextPlain, TextCpu, TextDisk, TextDiskVar, TextCpuMemory}

\* the classification answers of the oracle followed here: those of
\* ClassifierOutputs, answers whose labels the heuristic also finds, and one
\* with a confidence above 1
ClassifyAnswers ==
  ClassifierOutputs \cup
  { [keys |-> {"labels", "severity", "eligibility", "confidence"},
     labels |-> <<"high_cpu">>, severity |-> "P2", eligibility |-> "auto", confidence |-> 7],
    [keys |-> {"labels", "severity", "eligibility", "confidence"},
     labels |-> <<"disk_full", "var_full">>, severity |-> "P1", eligibility |-> "auto", confidence |-> 9],
    [keys |-> {"labels", "severity", "eligibility"},
     labels |-> <<"high_memory">>, severity |-> "P4", eligibility |-> "human-only", confidence |-> 0],
    [keys |-> {"severity"},
     labels |-> <<>>, severity |-> "P4", eligibility |-> "", confidence |-> 0],
    [keys |-> {"labels", "severity", "eligibility", "confidence"},
     labels |-> <<"server_down">>, severity |-> "P2", eligibility |-> "auto", confidence |-> 12] }

\* a run that has attached an incident and is about to fetch the catalog,
\* with an oracle whose classification answer is known
InitClassify ==
  /\ pc = "prefetch"
  /\ raw = [number |-> "INC1", incident_number |-> Absent]
  /\ \E text \in ClassifyTexts :
       ctx = [EmptyContext EXCEPT
                !.incident = [number |-> "INC1", severity |-> "P2", text |-> text]]
  /\ playbooks = <<>>
  /\ result = None
  /\ trace = <<"Intake">>
  /\ jobs = <<>>
  /\ nextJob = 1
  /\ execs = <<>>
  /\ ticket = <<>>
  /\ raised = NoneStr
  /\ IdlePolicy
  /\ IdlePoll
  /\ dbmode = "up"
  /\ \E answer \in ClassifyAnswers :
       oracle = [FreeOracle EXCEPT !.classify = Pinned(answer)]
  /\ lookup = IdleLookup
  /\ IdleHost
  /\ db = <<[stage |-> "Intake", ok |-> TRUE]>>
  /\ oracle_closure = NoneStr

\* orchestrator lines 35-53
NextClassify ==
  \/ Prefetch
  \/ Classify

SpecClassify == InitClassify /\ [][NextClassify]_vars

\* Classify has run on a structured answer of the oracle
C23_Structured ==
  /\ oracle.classify.pinned
  /\ oracle.classify.answer # Unparsable
  /\ Count(trace, "Classify") = 1

C24_OracleLabels ==
  IF "labels" \in oracle.classify.answer.keys
    THEN Range(oracle.classify.answer.labels) ELSE {"unknown"}

\* C24: the labels of the classification that leaves Classify are the union
\* of the labels the oracle asserted and those of the heuristic, so they
\* include every label of the oracle.
C24_UnionMonotonic ==
  (C23_Structured /\ ctx.classification # None) =>
    /\ C24_OracleLabels \subseteq Range(ctx.classification.labels)
    /\ Range(ctx.classification.labels) =
         C24_OracleLabels \cup HeuristicLabels(ctx.incident.text)

C24_Witness ==
  /\ C23_Structured
  /\ ctx.classification # None
  /\ oracle.classify.answer.labels = <<"high_cpu", "server_down">>
  /\ ctx.incident.text = TextDiskVar
  /\ Range(ctx.classification.labels) = {"high_cpu", "server_down", "disk_full", "var_full"}

\* the confidence the oracle gave (that of the default when it gave none)
C25_OracleConfidence ==
  IF "confidence" \in oracle.classify.answer.keys
    THEN oracle.classify.answer.confidence ELSE 5

\* C25: the confidence that leaves Classify is the oracle's plus 0.2, capped
\* at 1.0, exactly when the heuristic found a label the oracle had not
\* asserted, is the oracle's otherwise, and lies in [0,1].
C25_BonusOnlyForNewLabels ==
  (C23_Structured /\ ctx.classification # None) =>
    /\ ctx.classification.confidence =
         IF HeuristicLabels(ctx.incident.text) \ C24_OracleLabels # {}
           THEN Min(10, C25_OracleConfidence + 2)
           ELSE C25_OracleConfidence
    /\ ctx.classification.confidence \in 0..10

\* C26: the decision attached by Validate is bounded by the status of the
\* execution it judged: success only for status successful, rollback for
\* failed or error, escalate for timeout.
C26_DecisionBoundedByStatus ==
  (ctx.validation # None /\ Count(trace, "Execute") = 1) =>
    /\ ctx.validation.decision = "success" => ctx.execution.status = "successful"
    /\ ctx.execution.status \in {"failed", "error"} =>
         ctx.validation.decision = "rollback"
    /\ ctx.execution.status = "timeout" => ctx.validation.decision = "escalate"

(* ------------- Validate and Close on known answers --------------------- *)
\* the closure answers of the oracle followed here: those of ClosureOutputs
\* and answers with the resolutions resolved and escalated
CloseAnswers ==
  ClosureOutputs \cup
  { [keys |-> {"resolution", "work_notes", "resolution_summary"},
     resolution |-> "resolved", work_notes |-> "oracle notes",
     resolution_summary |-> "oracle summary"],
    [keys |-> {"resolution"},
     resolution |-> "escalated", work_notes |-> "", resolution_summary |-> ""] }

\* a run that has attached a plan and enters ExecutorAgent.run, with an
\* oracle whose validation and closure answers are known
InitValidate ==
  /\ pc = "execute"
  /\ raw = [number |-> "INC1", incident_number |-> Absent]
  /\ ctx = [EmptyContext EXCEPT
              !.incident = [number |-> "INC1", severity |-> "P2", text |-> TextPlain],
              !.classification = [labels |-> <<"server_down">>, severity |-> "P2",
                                  eligibility |-> "auto", confidence |-> 9],
              !.plan = [playbook_id |-> "7", eligibility |-> "auto"]]
  /\ playbooks = Catalog
  /\ result = None
  /\ trace = <<"Intake", "Classify", "Plan">>
  /\ jobs = <<>>
  /\ nextJob = 1
  /\ execs = <<>>
  /\ ticket = <<>>
  /\ raised = NoneStr
  /\ IdlePolicy
  /\ IdlePoll
  /\ dbmode = "up"
  /\ \E v \in ValidatorOutputs, c \in CloseAnswers :
       oracle = [FreeOracle EXCEPT !.validate = Pinned(v), !.close = Pinned(c)]
  /\ lookup = IdleLookup
  /\ IdleHost
  /\ db = <<[stage |-> "Intake", ok |-> TRUE], [stage |-> "Classify", ok |-> TRUE],
            [stage |-> "Plan", ok |-> TRUE]>>
  /\ oracle_closure = NoneStr

\* orchestrator lines 59-70
NextValidate ==
  \/ Execute
  \/ Validate
  \/ Close

SpecValidate == InitValidate /\ [][NextValidate]_vars

\* the oracle's validation answer holds none of the four decisions
C27_NoDecision ==
  /\ oracle.validate.pinned
  /\ IF oracle.validate.answer = Unparsable
       THEN TRUE
       ELSE oracle.validate.answer.decision \notin {"success", "partial", "rollback", "escalate"}

C28_OffSuccessPath ==
  /\ oracle.close.pinned
  /\ oracle.close.answer \notin {Unparsable, NotADict}
  /\ ctx.closure # None
  /\ ~(ctx.execution.status = "successful" /\ ctx.validation.decision = "success")

\* C28: off the (successful, success) path, the closure keeps a resolution
\* of the oracle that is one of resolved, duplicate, false-positive and
\* escalated; without one, the resolution is resolved when the execution
\* status is successful and escalated otherwise.
C28_ResolutionFallback ==
  C28_OffSuccessPath =>
    LET a == oracle.close.answer
    IN  ctx.closure.resolution =
          IF "resolution" \in a.keys
             /\ a.resolution \in {"resolved", "duplicate", "false-positive", "escalated"}
            THEN a.resolution
            ELSE IF ctx.execution.status = "successful" THEN "resolved" ELSE "escalated"

C28_Witness ==
  /\ C28_OffSuccessPath
  /\ oracle.close.answer.keys = {"resolution"}
  /\ oracle.close.answer.resolution = "closed"
  /\ ctx.execution.status = "failed"
  /\ ctx.closure.resolution = "escalated"

\* C29: whatever the fetch of the catalog does, a run that has attached an
\* incident and has not yet classified it has not ended: it is about to
\* fetch, or about to classify with the catalog or with the empty list.
C29_FetchFailureDoesNotBlock ==
  /\ raised \in Stages \cup {NoneStr}
  /\ (ctx.incident # None /\ Count(trace, "Classify") = 0) =>
       /\ pc \in {"prefetch", "classify"}
       /\ raised = NoneStr
       /\ result = None
       /\ pc = "classify" => playbooks \in {<<>>, Catalog}

C29_Witness ==
  /\ playbooks = <<>>
  /\ trace = <<"Intake", "Classify", "Plan", "Execute", "Validate", "Close">>
  /\ pc = "done"
  /\ raised = NoneStr
  /\ ctx.closure # None

\* C30: a step changes a field of the context only when it is the step of
\* the stage that owns the field (incident for Intake, classification for
\* Classify, plan for Plan, execution for Execute, validation for Validate,
\* closure for Close); an attached incident and an attached classification
\* are never changed.
C30_StagesWriteOwnField ==
  [][ /\ \A f \in DOMAIN ctx :
           ctx'[f] # ctx[f] =>
             /\ trace' # trace
             /\ f = StageField(trace'[Len(trace')])
      /\ ctx.incident # None => ctx'.incident = ctx.incident
      /\ ctx.classification # None => ctx'.classification = ctx.classification ]_vars

C30_Witness ==
  /\ trace = <<"Intake", "Classify", "Plan", "Execute", "Validate", "Execute", "Close">>
  /\ \A f \in DOMAIN ctx : ctx[f] # None
  /\ ctx.incident.number = "INC2"
  /\ ctx.validation.decision = "rollback"
  /\ ctx.execution.status = "successful"

(* --------------------------- concurrent runs --------------------------- *)
MaxTicks == 2
TickSeconds == 30

\* awx_client.py line 28
CacheTtl == 60

\* an entry older than the TTL still counts as fresh
CacheFreshMutant(entry, t) == entry # None

\* awx_client.py lines 56-58 with force_refresh false: there is an entry and
\* it is younger than the TTL
CacheFresh(entry, t) ==
  IF entry = None THEN FALSE ELSE t - entry.timestamp < CacheTtl

RunIds == {1, 2}

\* the raw incident of a run: the runs are for different incidents
RunRaw(r) == [number |-> IF r = 1 THEN "INC1" ELSE "INC2", incident_number |-> Absent]

\* the outcomes of one Execute a run can meet: the launch raises, or the job
\* is polled to success
ScriptExecs(job, at) ==
  { o \in ExecutionOutcomes(job, at) :
      \/ o.hist.launch = "raised"
      \/ /\ o.hist.poll = "ok"
         /\ o.record.status = "successful"
         /\ o.record.finished_at = "T1"
         /\ o.record.steps = <<>> }

\* what the collaborators answer to one run: the oracle at each stage, the
\* runner to the catalog fetch and to the two executions (with the job ids
\* it hands out)
Scripts(r) ==
  [intake : {[number |-> Absent, severity |-> "p2", text |-> TextPlain, complete |-> TRUE]},
   fetch : BOOLEAN,
   classify : {p \in ClassifierOutputs :
                 p # Unparsable /\ p.keys # {} /\ p.labels \in {<<"P1">>, <<"disk_full">>}},
   plan : {p \in PlannerOutputs : p # Unparsable /\ p.playbook_id = "9"},
   exec : ScriptExecs(r, "execute"),
   exec2 : {o \in ScriptExecs(r + 2, "retry") : o.hist.launch = "ok"},
   validate : [decision : {"success", "rollback", "escalate"}],
   close : {p \in ClosureOutputs : p \notin {Unparsable, NotADict} /\ p.keys = {"resolution"}}]

\* OrchestrationAgent.run line 19: a run starts with a context of its own
StartRun(r, script) ==
  [pc |-> "intake", raw |-> RunRaw(r), ctx |-> EmptyContext, playbooks |-> <<>>,
   result |-> None, raised |-> NoneStr, script |-> script, steps |-> 0, ts |-> 0]

\* the except handler of run (lines 78-84)
RunFail(run, stage) ==
  [run EXCEPT !.pc = "done", !.raised = stage, !.result = ErrorResponse(run.raw)]

\* one stage of a run on its own context, with the answers of its script
\* (orchestrator lines 25-77 with the run methods of the agents)
StageStep(run) ==
  LET s == run.script
      c == run.ctx
  IN CASE run.pc = "intake" ->
            IF IntakeFails(s.intake, run.raw)
              THEN RunFail(run, "Intake")
              ELSE LET c2 == [c EXCEPT !.incident = IntakeIncident(s.intake, run.raw)]
                   IN IF IntakeMissing(c2)
                        THEN [run EXCEPT !.ctx = c2, !.pc = "done",
                                         !.result = ErrorResponse(run.raw)]
                        ELSE [run EXCEPT !.ctx = c2, !.pc = "prefetch"]
       [] run.pc = "classify" ->
            IF c.incident = None \/ ClassifierFails(s.classify)
              THEN RunFail(run, "Classify")
              ELSE LET cls == CHOOSE x \in Classifications(s.classify, c.incident.text) : TRUE
                   IN IF PolicyGate(cls)
                        THEN [run EXCEPT !.ctx.classification = cls, !.pc = "done",
                                         !.result = AwaitingApproval(c)]
                        ELSE [run EXCEPT !.ctx.classification = cls, !.pc = "plan"]
       [] run.pc = "plan" ->
            IF c.classification = None
              THEN RunFail(run, "Plan")
              ELSE LET suggested == SuggestedPlaybook(c.classification.labels, c.incident.text)
                   IN IF PlannerFails(s.plan, suggested)
                        THEN RunFail(run, "Plan")
                        ELSE [run EXCEPT !.ctx.plan = PlanOf(PlanOverride(s.plan, suggested)),
                                         !.pc = "execute"]
       [] run.pc \in {"execute", "retry"} ->
            IF c.plan = None
              THEN RunFail(run, "Execute")
              ELSE LET out == IF run.pc = "execute" THEN s.exec ELSE s.exec2
                   IN [run EXCEPT !.ctx.execution = out.record, !.pc = AfterExecute(run.pc)]
       [] run.pc = "validate" ->
            IF c.execution = None \/ Falsy(c.incident.number) \/ ValidatorFails(s.validate)
              THEN RunFail(run, "Validate")
              ELSE LET validation == [decision |-> s.validate.decision]
                   IN [run EXCEPT !.ctx.validation = validation,
                                  !.pc = IF RollbackBranch(validation) THEN "retry" ELSE "close"]
       [] run.pc = "close" ->
            IF \/ c.validation = None
               \/ Falsy(c.incident.number)
               \/ ClosureFails(s.close, c.execution.status, c.validation.decision)
              THEN RunFail(run, "Close")
              ELSE LET closure == ClosureDefaults(ClosureOf(s.close, c.execution.status,
                                                  c.validation.decision, c.incident.number))
                       c2 == [c EXCEPT !.closure = closure]
                   IN [run EXCEPT !.ctx = c2, !.pc = "done", !.result = FinalResponse(c2)]

\* orchestrator lines 36-42 for a run that has the runner to itself: nothing
\* is cached, the fetch is answered as the script says
AloneFetch(run) ==
  [run EXCEPT !.playbooks = IF run.script.fetch THEN Catalog ELSE <<>>, !.pc = "classify"]

\* the first n steps of a run that is alone in the process
RECURSIVE AloneRun(_, _)
AloneRun(run, n) ==
  IF n = 0 \/ run.pc = "done" THEN run
  ELSE AloneRun([(IF run.pc = "prefetch" THEN AloneFetch(run) ELSE StageStep(run))
                   EXCEPT !.steps = @ + 1], n - 1)

\* two runs have been started for different incidents (main.py line 250 from
\* two requests); the process has cached nothing yet
InitConcurrent ==
  /\ pc = "host"
  /\ raw = RunRaw(1)
  /\ ctx = EmptyContext
  /\ playbooks = <<>>
  /\ result = None
  /\ trace = <<>>
  /\ jobs = <<>>
  /\ nextJob = 1
  /\ execs = <<>>
  /\ ticket = <<>>
  /\ raised = NoneStr
  /\ IdlePolicy
  /\ IdlePoll
  /\ dbmode = "up"
  /\ oracle = FreeOracle
  /\ lookup = IdleLookup
  /\ db = <<>>
  /\ oracle_closure = NoneStr
  /\ \E s1 \in Scripts(1), s2 \in Scripts(2) :
       runs = [r \in RunIds |-> StartRun(r, IF r = 1 THEN s1 ELSE s2)]
  /\ cache = None
  /\ now = 0
  /\ listing = IdleListing
  /\ processed_incidents = {}
  /\ scheduler = IdleScheduler

hostFrame == <<pc, raw, ctx, playbooks, result, trace, jobs, nextJob, execs, ticket,
               raised, policyVars, pollVars, dbmode, oracle, lookup, db, oracle_closure,
               schedVars>>

\* the context is an attribute of the shared orchestrator: a stage of one run
\* writes the context of every run
RunStageMutant(r) ==
  /\ runs[r].pc \notin {"done", "prefetch", "fetching"}
  /\ LET stepped == [StageStep(runs[r]) EXCEPT !.steps = @ + 1]
     IN runs' = [q \in RunIds |-> IF q = r THEN stepped
                                  ELSE [runs[q] EXCEPT !.ctx = stepped.ctx]]
  /\ UNCHANGED <<cache, now, listing, hostFrame>>

\* a run resumes and executes one stage up to its next await
RunStage(r) ==
  /\ runs[r].pc \notin {"done", "prefetch", "fetching"}
  /\ runs' = [runs EXCEPT ![r] = [StageStep(runs[r]) EXCEPT !.steps = @ + 1]]
  /\ UNCHANGED <<cache, now, listing, hostFrame>>

\* awx_client.py lines 53-66: the run reads the cache of the shared client
\* and returns the entry, or takes the time and sends the request
RunListTemplates(r) ==
  /\ runs[r].pc = "prefetch"
  /\ runs' = [runs EXCEPT ![r] =
                IF CacheFresh(cache, now)
                  THEN [@ EXCEPT !.playbooks = cache.data, !.pc = "classify",
                                 !.steps = @ + 1]
                  ELSE [@ EXCEPT !.pc = "fetching", !.ts = now]]
  /\ UNCHANGED <<cache, now, listing, hostFrame>>

\* awx_client.py lines 66-75 and orchestrator lines 41-42: the runner
\* answers; a list is stored under the time taken before the request
RunFetchReply(r) ==
  /\ runs[r].pc = "fetching"
  /\ IF runs[r].script.fetch
       THEN /\ cache' = [data |-> Catalog, timestamp |-> runs[r].ts]
            /\ runs' = [runs EXCEPT ![r] = [@ EXCEPT !.playbooks = Catalog,
                                                      !.pc = "classify", !.steps = @ + 1]]
       ELSE /\ UNCHANGED cache
            /\ runs' = [runs EXCEPT ![r] = [@ EXCEPT !.playbooks = <<>>,
                                                      !.pc = "classify", !.steps = @ + 1]]
  /\ UNCHANGED <<now, listing, hostFrame>>

\* time passes while the runs wait
HostTick ==
  /\ now < MaxTicks * TickSeconds
  /\ \E r \in RunIds : runs[r].pc # "done"
  /\ now' = now + TickSeconds
  /\ UNCHANGED <<runs, cache, listing, hostFrame>>

NextConcurrent ==
  \/ \E r \in RunIds : RunStage(r)
  \/ \E r \in RunIds : RunListTemplates(r)
  \/ \E r \in RunIds : RunFetchReply(r)
  \/ HostTick

SpecConcurrent == InitConcurrent /\ [][NextConcurrent]_vars

TopCount == 3

\* planner.py line 103 on lines 76-78: the words of the incident text and
\* the labels that are longer than 3 characters
IncidentTokens(c) ==
  {w \in c.incident.text \cup
         (IF c.classification # None THEN Range(c.classification.labels) ELSE {}) :
     Len(w) > 3}

\* planner.py lines 104-105: the tokens found in the name and description of
\* a playbook (`words` holds the tokens that occur in them)
Score(tokens, pb) == Cardinality(tokens \cap pb.words)

\* planner.py lines 84-88
KeepIds(suggested) == {suggested.id, "7"}

\* seq without its i-th element
RemoveAt(seq, i) == SubSeq(seq, 1, i - 1) \o SubSeq(seq, i + 1, Len(seq))

\* planner.py lines 110-113: the first n entries of the list sorted by score,
\* highest first, entries of equal score in their order in the list
RECURSIVE TopCandidates(_, _, _)
TopCandidates(tokens, seq, n) ==
  IF n = 0 \/ seq = <<>> THEN <<>>
  ELSE LET i == CHOOSE i \in 1..Len(seq) :
                  /\ \A j \in 1..Len(seq) : Score(tokens, seq[j]) <= Score(tokens, seq[i])
                  /\ \A j \in 1..(i - 1) : Score(tokens, seq[j]) < Score(tokens, seq[i])
       IN <<seq[i]>> \o TopCandidates(tokens, RemoveAt(seq, i), n - 1)

\* PlannerAgent._filter_playbooks
FilterPlaybooks(c, pbs, suggested) ==
  IF pbs = <<>> THEN <<>>
  ELSE SelectSeq(pbs, LAMBDA pb : pb.id \in KeepIds(suggested))
       \o TopCandidates(IncidentTokens(c),
                        SelectSeq(pbs, LAMBDA pb : pb.id \notin KeepIds(suggested)),
                        TopCount)

\* a catalog of the runner with the tokens that occur in each entry
BigCatalog ==
  << [id |-> "7", name |-> "Demo Job Template", words |-> {}],
     [id |-> "9", name |-> "check_cpu_utilization", words |-> {"utilization"}],
     [id |-> "10", name |-> "Clean up var filesystem", words |-> {"disk", "filesystem"}],
     [id |-> "11", name |-> "Restart service", words |-> {}],
     [id |-> "12", name |-> "Check disk usage", words |-> {"disk"}],
     [id |-> "13", name |-> "Rotate logs", words |-> {"disk", "utilization"}],
     [id |-> "14", name |-> "Free memory", words |-> {"memory"}],
     [id |-> "15", name |-> "Reboot host", words |-> {}],
     [id |-> "16", name |-> "Extend volume", words |-> {"disk", "memory", "utilization"}] >>

MaxCatalog == 8

\* the catalogs listed: runs of consecutive entries of BigCatalog
FilterCatalogs ==
  { pbs \in { SubSeq(BigCatalog, a, b) : a \in 1..Len(BigCatalog),
                                         b \in 0..Len(BigCatalog) } :
      Len(pbs) <= MaxCatalog }

\* the words of the incident texts followed here
FilterTexts == { {}, {"disk"}, {"cpu", "utilization"}, {"disk", "memory", "utilization"} }

FilterLabelLists == { <<"unknown">>, <<"high_cpu">>, <<"disk_full", "high_cpu">> }

\* PlannerAgent.run has made its deterministic suggestion (lines 136-150)
\* and is about to filter the catalog (line 155)
InitFilter ==
  /\ pc = "plan"
  /\ raw = [number |-> "INC1", incident_number |-> Absent]
  /\ \E text \in FilterTexts, labels \in FilterLabelLists :
       /\ ctx = [EmptyContext EXCEPT
                   !.incident = [number |-> "INC1", severity |-> "P2", text |-> text],
                   !.classification = [labels |-> labels, severity |-> "P2",
                                       eligibility |-> "auto", confidence |-> 9]]
       /\ lookup = [IdleLookup EXCEPT
                      !.suggested_playbook = SuggestedPlaybook(labels, text)]
  /\ playbooks \in FilterCatalogs
  /\ result = None
  /\ trace = <<"Intake", "Classify">>
  /\ jobs = <<>>
  /\ nextJob = 1
  /\ execs = <<>>
  /\ ticket = <<>>
  /\ raised = NoneStr
  /\ IdlePolicy
  /\ IdlePoll
  /\ dbmode = "up"
  /\ oracle = FreeOracle
  /\ IdleHost
  /\ db = <<[stage |-> "Intake", ok |-> TRUE], [stage |-> "Classify", ok |-> TRUE]>>
  /\ oracle_closure = NoneStr

\* planner.py line 155
Filter ==
  /\ lookup.suggested_playbook # None
  /\ ~lookup.filtered
  /\ lookup' = [lookup EXCEPT
                  !.filtered = TRUE,
                  !.filtered_playbooks =
                     FilterPlaybooks(ctx, playbooks, lookup.suggested_playbook)]
  /\ UNCHANGED lookupFrame

SpecFilter == InitFilter /\ [][Filter]_vars

\* the entries of the catalog that are always kept, and the others
C32_Kept == SelectSeq(playbooks, LAMBDA pb : pb.id \in {"7", lookup.suggested_playbook.id})
C32_Others == SelectSeq(playbooks, LAMBDA pb : pb.id \notin {"7", lookup.suggested_playbook.id})
C32_Returned(pb) == \E i \in 1..Len(lookup.filtered_playbooks) : lookup.filtered_playbooks[i] = pb

\* C32: the filter returns entries of the catalog, none twice; it returns
\* every entry with id 7 or with the id of the suggestion, and of the others
\* the 5 with the highest score (all of them when there are fewer); an empty
\* catalog gives an empty list.
C32_FilterKeepsTopFive ==
  lookup.filtered =>
    LET out == lookup.filtered_playbooks
    IN  /\ \A i \in 1..Len(out) : out[i] \in Range(playbooks)
        /\ \A i, j \in 1..Len(out) : out[i] = out[j] => i = j
        /\ \A pb \in Range(C32_Kept) : C32_Returned(pb)
        /\ playbooks = <<>> => out = <<>>
        /\ Len(out) = Len(C32_Kept) + Min(5, Len(C32_Others))
        /\ \A p \in Range(C32_Others), q \in Range(C32_Others) :
             (C32_Returned(p) /\ ~C32_Returned(q)) =>
               Score(IncidentTokens(ctx), p) >= Score(IncidentTokens(ctx), q)

\* C33: a fetch of the events never leaves poll_job: the loop goes on to the
\* check with the status it read, and after a fetch that failed the events
\* are those of the last fetch that succeeded; what poll_job returns carries
\* those events and the status read last, or timeout when that status is not
\* terminal.
C33_EventFailureSwallowed ==
  /\ [][ poll_pc = "events" =>
           /\ poll_pc' = "check"
           /\ poll_status' = poll_status
           /\ events_failed' => (poll_events' = poll_events /\ poll_events' = fetched') ]_vars
  /\ [](poll_result # None =>
          /\ poll_result.events = fetched
          /\ IF poll_status \in {"successful", "failed", "error", "canceled"}
               THEN poll_result.status = poll_status
               ELSE poll_result.status = "timeout")

C33_Witness ==
  /\ poll_result # None
  /\ events_failed
  /\ sleeps > 0
  /\ poll_result.status = "successful"
  /\ poll_result.events # <<>>

(* --------------------------- the catalog cache ------------------------- *)
MaxCalls == 3

\* what the runner lists when it answers: nothing, the catalog, or the
\* catalog without its last entry
RemoteCatalogs == {<<>>, Catalog, SubSeq(Catalog, 1, 2)}

\* the client has been constructed (awx_client.py lines 27-28)
InitCatalog ==
  /\ pc = "host"
  /\ raw = RunRaw(1)
  /\ ctx = EmptyContext
  /\ playbooks = <<>>
  /\ result = None
  /\ trace = <<>>
  /\ jobs = <<>>
  /\ nextJob = 1
  /\ execs = <<>>
  /\ ticket = <<>>
  /\ raised = NoneStr
  /\ IdlePolicy
  /\ IdlePoll
  /\ dbmode = "up"
  /\ oracle = FreeOracle
  /\ lookup = IdleLookup
  /\ db = <<>>
  /\ oracle_closure = NoneStr
  /\ IdleHost

\* awx_client.py lines 53-66: the call takes the time, returns a fresh entry
\* of the cache, or sends the request
ListCall ==
  /\ listing.pc = "idle"
  /\ listing.calls < MaxCalls
  /\ \E force \in BOOLEAN :
       listing' = IF ~force /\ CacheFresh(cache, now)
                    THEN [listing EXCEPT !.pc = "returned", !.force = force, !.ts = now,
                                         !.hit = TRUE, !.out = cache.data]
                    ELSE [listing EXCEPT !.pc = "fetching", !.force = force, !.ts = now,
                                         !.hit = FALSE, !.out = <<>>]
  /\ UNCHANGED <<runs, cache, now, hostFrame>>

\* awx_client.py lines 66-75: the runner answers with a list, which is
\* stored under the time the call took, or the request raises
ListReply ==
  /\ listing.pc = "fetching"
  /\ \/ \E data \in RemoteCatalogs :
          /\ cache' = [data |-> data, timestamp |-> listing.ts]
          /\ listing' = [listing EXCEPT !.pc = "returned", !.out = data]
     \/ /\ listing' = [listing EXCEPT !.pc = "raised"]
        /\ UNCHANGED cache
  /\ UNCHANGED <<runs, now, hostFrame>>

\* the caller has the list or the exception
ListDone ==
  /\ listing.pc \in {"returned", "raised"}
  /\ listing' = [listing EXCEPT !.pc = "idle", !.calls = @ + 1]
  /\ UNCHANGED <<runs, cache, now, hostFrame>>

\* time passes between and during the calls
ClockTick ==
  /\ now < MaxTicks * TickSeconds
  /\ now' = now + TickSeconds
  /\ UNCHANGED <<runs, cache, listing, hostFrame>>

NextCatalog ==
  \/ ListCall
  \/ ListReply
  \/ ListDone
  \/ ClockTick

SpecCatalog == InitCatalog /\ [][NextCatalog]_vars

\* C34: list_job_templates returns the entry of the cache only without
\* force_refresh and when the entry was stored less than 60 seconds before
\* the call; otherwise it asks the runner; the cache changes only when the
\* runner has answered, to the list returned, and a request that raised
\* leaves the cache as it was.
C34_CacheTtl ==
  /\ [](/\ (listing.pc = "returned" /\ listing.hit) =>
             /\ ~listing.force
             /\ cache # None
             /\ listing.out = cache.data
             /\ listing.ts - cache.timestamp < 60
        /\ listing.pc = "fetching" =>
             \/ listing.force
             \/ cache = None
             \/ listing.ts - cache.timestamp >= 60)
  /\ [][ /\ cache' # cache =>
              /\ listing.pc = "fetching"
              /\ listing'.pc = "returned"
              /\ cache'.data = listing'.out
         /\ (listing.pc = "fetching" /\ listing'.pc = "raised") => cache' = cache ]_vars

C34_Witness ==
  /\ listing.pc = "returned"
  /\ listing.hit
  /\ listing.calls = 2
  /\ listing.ts - cache.timestamp = 30
  /\ listing.out = Catalog

\* C35: the labels of the classification attached to the context hold no
\* label twice, whatever the oracle answered and whether or not the
\* heuristic found a label.
C35_LabelsDeduplicated ==
  ctx.classification # None =>
    \A i, j \in 1..Len(ctx.classification.labels) :
      ctx.classification.labels[i] = ctx.classification.labels[j] => i = j

\* C36: the record attached by the executor tracks the job of the runner:
\* when launch_job returned the id of a job the record carries that id, and
\* when job_status reported a terminal status the record carries that
\* status, also when a later request of the poll raised.
C36_RecordTracksJob ==
  (poll_pc = "done" /\ ctx.execution # None) =>
    /\ jobs # <<>> => ctx.execution.job_id = Str(jobs[Len(jobs)].id)
    /\ poll_status \in TerminalStatuses => ctx.execution.status = poll_status

\* C37: Execute is invoked only in a run whose classification has
\* eligibility auto and whose plan does not have eligibility human-only.
C37_ExecuteOnlyWhenEligible ==
  Count(trace, "Execute") >= 1 =>
    /\ ctx.classification # None
    /\ ctx.classification.eligibility = "auto"
    /\ ctx.plan # None => ctx.plan.eligibility # "human-only"

(* ------------------------ the incident scheduler ----------------------- *)
MaxBatch == 2
MaxPolls == 2

\* the incidents of the ticketing system: the key of the record, the ticket
\* number and the state ("1" is New); one record has no sys_id
TicketIncidents ==
  { [sys_id |-> "s1", number |-> "INC1"],
    [sys_id |-> "s2", number |-> "INC2"],
    [sys_id |-> "s3", number |-> "INC3"],
    [sys_id |-> NoneStr, number |-> "INC4"] }

\* what query_incidents answers: up to `limit` incidents in any state, the
\* same incident possibly twice, or an exception
QueryAnswers ==
  {[raised |-> TRUE, incidents |-> <<>>]} \cup
  { [raised |-> FALSE, incidents |-> l] :
      l \in UNION { [1..n -> [inc : TicketIncidents, state : {"1", "2"}]] : n \in 0..MaxBatch } }

\* servicenow_fetcher.py lines 31-54: the incidents in state New
PostFilter(incidents) == SelectSeq(incidents, LAMBDA e : e.state = "1")

\* every incident is converted, also one already processed
AlreadyProcessedMutant(sys_id, processed) == FALSE

\* servicenow_fetcher.py line 74
AlreadyProcessed(sys_id, processed) == sys_id \in processed

\* servicenow_fetcher.py lines 63-99: the requests built from the incidents
\* that are not processed yet, the set of processed incidents afterwards,
\* and the incidents passed over
RECURSIVE Convert(_, _)
Convert(incidents, processed) ==
  IF incidents = <<>>
    THEN [requests |-> <<>>, processed |-> processed, skipped |-> {}]
    ELSE LET e == Head(incidents)
         IN IF AlreadyProcessed(e.inc.sys_id, processed)
              THEN LET rest == Convert(Tail(incidents), processed)
                   IN [rest EXCEPT !.skipped = @ \cup {e.inc.sys_id}]
              ELSE LET rest == Convert(Tail(incidents), processed \cup {e.inc.sys_id})
                   IN [rest EXCEPT !.requests = <<e.inc>> \o @]

\* ServiceNowIncidentFetcher.fetch_open_incidents
FetchOpenIncidents(answer, processed) ==
  IF answer.raised
    THEN [requests |-> <<>>, processed |-> processed, skipped |-> {}]
    ELSE Convert(PostFilter(answer.incidents), processed)

\* the scheduler has been started (main.py lines 115-126)
InitScheduler ==
  /\ pc = "host"
  /\ raw = RunRaw(1)
  /\ ctx = EmptyContext
  /\ playbooks = <<>>
  /\ result = None
  /\ trace = <<>>
  /\ jobs = <<>>
  /\ nextJob = 1
  /\ execs = <<>>
  /\ ticket = <<>>
  /\ raised = NoneStr
  /\ IdlePolicy
  /\ IdlePoll
  /\ dbmode = "up"
  /\ oracle = FreeOracle
  /\ lookup = IdleLookup
  /\ db = <<>>
  /\ oracle_closure = NoneStr
  /\ IdleHost

schedFrame == <<runs, cache, now, listing, pc, raw, ctx, playbooks, result, trace, jobs,
                nextJob, execs, ticket, raised, policyVars, pollVars, dbmode, oracle,
                lookup, db, oracle_closure>>

\* incident_scheduler.py lines 47-66: a turn of the poll loop fetches the
\* incidents and starts on the batch, or goes back to sleep with none
ProcessIncidents ==
  /\ scheduler.pc = "sleep"
  /\ scheduler.polls < MaxPolls
  /\ \E answer \in QueryAnswers :
       LET fetched_ == FetchOpenIncidents(answer, processed_incidents)
       IN /\ processed_incidents' = fetched_.processed
          /\ scheduler' = [scheduler EXCEPT
                             !.polls = @ + 1,
                             !.skipped = @ \cup fetched_.skipped,
                             !.batch = fetched_.requests,
                             !.i = 1,
                             !.pc = IF fetched_.requests = <<>> THEN "sleep" ELSE "batch"]
  /\ UNCHANGED schedFrame

\* incident_scheduler.py lines 69-73: orchestrator.run is called for the
\* next request of the batch
RunIncident ==
  /\ scheduler.pc = "batch"
  /\ scheduler' = [scheduler EXCEPT
                     !.pc = "running",
                     !.inflight = @ \cup {scheduler.batch[scheduler.i].sys_id},
                     !.started = Append(@, scheduler.batch[scheduler.i].sys_id)]
  /\ UNCHANGED <<processed_incidents, schedFrame>>

\* incident_scheduler.py lines 73-77: the run returns or raises, and the
\* loop goes on to the next request
RunIncidentDone ==
  /\ scheduler.pc = "running"
  /\ \E ok \in BOOLEAN :
       scheduler' = [scheduler EXCEPT
                       !.inflight = @ \ {scheduler.batch[scheduler.i].sys_id},
                       !.failed = IF ok THEN @ ELSE @ \cup {scheduler.batch[scheduler.i].sys_id},
                       !.i = @ + 1,
                       !.pc = IF scheduler.i < Len(scheduler.batch) THEN "batch" ELSE "sleep"]
  /\ UNCHANGED <<processed_incidents, schedFrame>>

NextScheduler ==
  \/ ProcessIncidents
  \/ RunIncident
  \/ RunIncidentDone

SpecScheduler == InitScheduler /\ [][NextScheduler]_vars

\* C38: over all polls no incident is handed to orchestrator.run twice; at
\* most one run of the scheduler is in flight; and when the scheduler is
\* back asleep every request of its batch has been run, whichever of the
\* runs failed.
C38_EachIncidentOnce ==
  /\ \A i, j \in 1..Len(scheduler.started) :
       scheduler.started[i] = scheduler.started[j] => i = j
  /\ Cardinality(scheduler.inflight) <= 1
  /\ scheduler.pc = "sleep" =>
       \A k \in 1..Len(scheduler.batch) :
         \E n \in 1..Len(scheduler.started) :
           scheduler.started[n] = scheduler.batch[k].sys_id

C38_Witness ==
  /\ scheduler.pc = "sleep"
  /\ scheduler.polls = 2
  /\ Len(scheduler.started) = 3
  /\ Len(scheduler.batch) = 1
  /\ scheduler.started[1] \in scheduler.failed
  /\ scheduler.started[1] \in scheduler.skipped
  /\ scheduler.started[3] = scheduler.batch[1].sys_id

\* the labels of the last application, in lower case
C39_Lower == {LowerLabel(last_labels[i]) : i \in 1..Len(last_labels)}

\* C39: after an application of validate_playbook_selection the plan names
\* the playbook of the policy table for the override label present: the
\* cleanup playbook with a storage-family label, the CPU playbook with the
\* CPU label and no storage-family label; an application sets eligibility
\* human-only when it was auto and the labels carry p1 or severity, never
\* changes human-only, and changes nothing when it follows an application
\* with the same labels.
C39_IdempotentOverride ==
  /\ [](applied >= 1 =>
          /\ C39_Lower \cap StorageFamily # {} =>
               /\ DictGet(plan_data, "playbook_id") = "10"
               /\ DictGet(plan_data, "playbook_name") = "Clean up var filesystem"
          /\ ("high_cpu" \in C39_Lower /\ C39_Lower \cap StorageFamily = {}) =>
               /\ DictGet(plan_data, "playbook_id") = "9"
               /\ DictGet(plan_data, "playbook_name") = "check_cpu_utilization")
  /\ [][ /\ (DictGet(plan_data, "eligibility") = "auto" /\ HasSeverityMarker(last_labels'))
              => DictGet(plan_data', "eligibility") = "human-only"
         /\ DictGet(plan_data, "eligibility") = "human-only"
              => DictGet(plan_data', "eligibility") = "human-only"
         /\ (applied >= 1 /\ last_labels' = last_labels) => plan_data' = plan_data ]_vars
====
